---- MODULE Spec2Model ----
(***************************************************************************)
(* Label verification: the declared record of the form is compared with    *)
(* what was read from the label image, either as a structured record       *)
(* (vision path, lib/visionExtraction.ts) or as OCR text (text path,        *)
(* lib/verification.ts with lib/textMatching.ts).                           *)
(*                                                                          *)
(* Strings are sequences of one-character strings.  Numbers with a decimal  *)
(* point (ABV) are integers counting tenths of a percentage point; the      *)
(* double arithmetic of the comparison is modelled by RoundErr below.       *)
(* An optional value is Null (absent) or Some(v).                           *)
(***************************************************************************)
EXTENDS Integers, Sequences, FiniteSets, TLC

VARIABLES
  pc,             \* where the request is: "vision", "extracted", "ocr", "done"
  usedMethod,     \* 'vision' | 'ocr'
  formData,       \* the declared record of the form
  rawJson,        \* the JSON object parsed from the vision response
  extractedData,  \* the record extractLabelDataWithVision returns
  ocrText,        \* the text read by OCR
  fields,         \* the five field results of verifyLabel / verifyLabelWithVision
  result,         \* what the verification returned or threw
  request,        \* the HTTP request the handler received
  response,       \* the HTTP response the handler sent
  tempFiles,      \* the uploaded files formidable wrote and nobody deleted yet
  trace,          \* the collaborator calls of the handler and how they ended
  calls,          \* the local state of each of the concurrent verifyLabel calls
  lastIndex,      \* the cursor of each global regular expression object
  args,           \* the arguments of a call of one library function
  returned,       \* what that call returned
  verificationForm, \* the state of the VerificationForm component in the browser
  inFlight        \* the requests the form sent that are not answered yet

\* the state of one request inside the verification
coreVars == <<pc, usedMethod, formData, rawJson, extractedData, ocrText, fields, result>>
\* the state of the handler around it
handlerVars == <<request, response, tempFiles>>
\* the state of concurrently running verifyLabel calls
callVars == <<calls, lastIndex>>
\* a call of one function of lib/textMatching.ts or of the classifier
libVars == <<args, returned>>
\* the form in the browser and its requests
formVars == <<verificationForm, inFlight>>

vars == <<pc, usedMethod, formData, rawJson, extractedData, ocrText, fields, result,
          request, response, tempFiles, trace, calls, lastIndex, args, returned,
          verificationForm, inFlight>>

(***************************************************************************)
(* Optional values and small helpers                                        *)
(***************************************************************************)
Null == <<>>
Undefined == <<>>
Some(v) == <<v>>
IsNull(x) == x = <<>>
Val(x) == x[1]

\* a parsed JSON value whose type is not the one its field is declared with:
\* the pair of its typeof and its value
Mistyped(type, v) == <<type, v>>
IsMistyped(x) == Len(x) = 2

\* the truthiness of such a value
Truthy(x) ==
  IF x[1] = "number" THEN x[2] # 0
  ELSE IF x[1] = "boolean" THEN x[2]
  ELSE x[2] # <<>>

\* the double NaN, where a number is expected
NaN == <<"NaN", 0>>

\* what the call of a string method on a value that is not a string raises
TypeError == [kind |-> "throw", error |-> "TypeError"]

\* whether the value of a verifier call is a raised error
Threw(r) == "kind" \in DOMAIN r

Max2(a, b) == IF a >= b THEN a ELSE b
Min2(a, b) == IF a <= b THEN a ELSE b
Min3(a, b, c) == Min2(a, Min2(b, c))

RECURSIVE Pow2(_)
Pow2(n) == IF n = 0 THEN 1 ELSE 2 * Pow2(n - 1)

(***************************************************************************)
(* Characters                                                               *)
(***************************************************************************)
LowerLetters == <<"a","b","c","d","e","f","g","h","i","j","k","l","m",
                  "n","o","p","q","r","s","t","u","v","w","x","y","z">>
UpperLetters == <<"A","B","C","D","E","F","G","H","I","J","K","L","M",
                  "N","O","P","Q","R","S","T","U","V","W","X","Y","Z">>
DigitChars == <<"0","1","2","3","4","5","6","7","8","9">>
WhitespaceChars == {" ", "\n", "\t"}

IsSpace(c) == c \in WhitespaceChars
IsDigit(c) == \E i \in 1..10 : DigitChars[i] = c
IsUpper(c) == \E i \in 1..26 : UpperLetters[i] = c
IsLower(c) == \E i \in 1..26 : LowerLetters[i] = c
\* \w of a JavaScript regular expression
IsWordChar(c) == IsDigit(c) \/ IsUpper(c) \/ IsLower(c) \/ c = "_"
DigitValue(c) == (CHOOSE i \in 1..10 : DigitChars[i] = c) - 1

\* the decimal digits of a natural number
RECURSIVE NatString(_)
NatString(n) ==
  IF n < 10 THEN <<DigitChars[n + 1]>>
  ELSE NatString(n \div 10) \o <<DigitChars[(n % 10) + 1]>>

\* `${x}%` for a number x given in tenths
PercentString(tenths) ==
  NatString(tenths \div 10)
    \o (IF tenths % 10 = 0 THEN <<>> ELSE <<".", DigitChars[(tenths % 10) + 1]>>)
    \o <<"%">>

ToLowerChar(c) ==
  IF IsUpper(c) THEN LowerLetters[CHOOSE i \in 1..26 : UpperLetters[i] = c] ELSE c

\* String.prototype.toLowerCase
ToLowerCase(s) == [i \in 1..Len(s) |-> ToLowerChar(s[i])] \o <<>>

\* the sequence 1, ..., n
Indices(n) == [i \in 1..n |-> i] \o <<>>

\* String.prototype.trim: from the first to the last non-space character
Trim(s) ==
  LET NonSpace == {i \in 1..Len(s) : ~IsSpace(s[i])}
  IN  IF NonSpace = {} THEN <<>>
      ELSE SubSeq(s, CHOOSE i \in NonSpace : \A j \in NonSpace : i <= j,
                     CHOOSE i \in NonSpace : \A j \in NonSpace : i >= j)

\* s.replace(/\s+/g, ' '): every whitespace run becomes one space
CollapseWhitespace(s) ==
  LET kept == SelectSeq(Indices(Len(s)),
                        LAMBDA i : ~IsSpace(s[i]) \/ i = 1 \/ ~IsSpace(s[i - 1]))
  IN  [k \in 1..Len(kept) |-> IF IsSpace(s[kept[k]]) THEN " " ELSE s[kept[k]]] \o <<>>

\* s.replace(/\s+/g, '')
RemoveWhitespace(s) == SelectSeq(s, LAMBDA c : ~IsSpace(c))

StartsWithAt(s, i, lit) ==
  /\ i >= 1
  /\ i + Len(lit) - 1 <= Len(s)
  /\ SubSeq(s, i, i + Len(lit) - 1) = lit

\* String.prototype.includes
Includes(s, lit) == \E i \in 1..(Len(s) + 1) : StartsWithAt(s, i, lit)

\* String.prototype.indexOf, 0-based; only used where Includes(s, lit)
IndexOf(s, lit) ==
  (CHOOSE i \in 1..(Len(s) + 1) :
     /\ StartsWithAt(s, i, lit)
     /\ \A j \in 1..(i - 1) : ~StartsWithAt(s, j, lit)) - 1

\* end (exclusive) of the greedy run \d* begun at position i
SkipDigits(s, i) ==
  CHOOSE j \in i..(Len(s) + 1) :
    /\ \A k \in i..(j - 1) : IsDigit(s[k])
    /\ j = Len(s) + 1 \/ ~IsDigit(s[j])

\* end (exclusive) of the greedy run \s* begun at position i
SkipSpaces(s, i) ==
  CHOOSE j \in i..(Len(s) + 1) :
    /\ \A k \in i..(j - 1) : IsSpace(s[k])
    /\ j = Len(s) + 1 \/ ~IsSpace(s[j])


(***************************************************************************)
(* Field results                                                            *)
(***************************************************************************)
\* FieldResult of types/index.ts; similarity and error are optional
FieldResult(m, e, f, sim, err) ==
  [matched |-> m, expected |-> e, found |-> f, similarity |-> sim, error |-> err]

\* s.split(/[\s\-\/]+/).filter(w => w.length > 0)
IsWordSeparator(c) == IsSpace(c) \/ c = "-" \/ c = "/"

RECURSIVE SplitWordsFrom(_, _, _)
SplitWordsFrom(s, i, cur) ==
  IF i > Len(s) THEN (IF cur = <<>> THEN <<>> ELSE <<cur>>)
  ELSE IF IsWordSeparator(s[i])
       THEN (IF cur = <<>> THEN <<>> ELSE <<cur>>) \o SplitWordsFrom(s, i + 1, <<>>)
       ELSE SplitWordsFrom(s, i + 1, Append(cur, s[i]))

SplitWords(s) == SplitWordsFrom(s, 1, <<>>)

\* toLowerCase().trim().replace(/\s+/g, ' ') of the vision verifiers
VisionNormalize(s) == CollapseWhitespace(Trim(ToLowerCase(s)))

(***************************************************************************)
(* lib/visionExtraction.ts: verifyBrandName                                 *)
(***************************************************************************)
\* a variant of verifyBrandName that compares after normalizeText, which also
\* strips special characters
VisionVerifyBrandNameStripped(expected, found) ==
  IF IsNull(found) \/ Val(found) = <<>>
  THEN FieldResult(FALSE, expected, Null, Undefined, Some("Brand name not found on label"))
  ELSE IF SelectSeq(VisionNormalize(expected),
                    LAMBDA c : IsWordChar(c) \/ IsSpace(c) \/ c \in {"%", ".", "-"})
          = SelectSeq(VisionNormalize(Val(found)),
                      LAMBDA c : IsWordChar(c) \/ IsSpace(c) \/ c \in {"%", ".", "-"})
       THEN FieldResult(TRUE, expected, found, Some(100), Undefined)
       ELSE FieldResult(FALSE, expected, found, Undefined, Some("Brand name mismatch"))

VisionVerifyBrandName(expected, found) ==
  IF IsNull(found) \/ (IsMistyped(found) /\ ~Truthy(found))
       \/ (~IsMistyped(found) /\ Val(found) = <<>>)
  THEN FieldResult(FALSE, expected, Null, Undefined, Some("Brand name not found on label"))
  \* found.toLowerCase is not a function
  ELSE IF IsMistyped(found) THEN TypeError
  ELSE IF VisionNormalize(expected) = VisionNormalize(Val(found))
       THEN FieldResult(TRUE, expected, found, Some(100), Undefined)
       ELSE FieldResult(FALSE, expected, found, Undefined, Some("Brand name mismatch"))

(***************************************************************************)
(* lib/visionExtraction.ts: verifyField (product type)                      *)
(***************************************************************************)
\* every word of ws occurs among vs, exactly or (if longer than 2) as a part
AllWordsIn(ws, vs) ==
  \A i \in 1..Len(ws) :
    \E j \in 1..Len(vs) :
      \/ vs[j] = ws[i]
      \/ (Includes(vs[j], ws[i]) /\ Len(ws[i]) > 2)

\* verifyField without its word matching: only equal normalized strings match
VerifyFieldExactOnly(fieldName, expected, found) ==
  IF IsNull(found) \/ (IsMistyped(found) /\ ~Truthy(found))
       \/ (~IsMistyped(found) /\ Val(found) = <<>>)
  THEN FieldResult(FALSE, expected, Null, Undefined, Some(<<fieldName, "not found on label">>))
  ELSE IF IsMistyped(found) THEN TypeError
  ELSE IF VisionNormalize(expected) = VisionNormalize(Val(found))
  THEN FieldResult(TRUE, expected, found, Some(100), Undefined)
  ELSE FieldResult(FALSE, expected, found, Undefined, Some(<<fieldName, "mismatch">>))

VerifyField(fieldName, expected, found) ==
  IF IsNull(found) \/ (IsMistyped(found) /\ ~Truthy(found))
       \/ (~IsMistyped(found) /\ Val(found) = <<>>)
  THEN FieldResult(FALSE, expected, Null, Undefined, Some(<<fieldName, "not found on label">>))
  \* found.toLowerCase is not a function
  ELSE IF IsMistyped(found) THEN TypeError
  ELSE
    LET normalizedExpected == VisionNormalize(expected)
        normalizedFound == VisionNormalize(Val(found))
        expectedWords == SplitWords(normalizedExpected)
        foundWords == SplitWords(normalizedFound)
    IN  IF normalizedExpected = normalizedFound
        THEN FieldResult(TRUE, expected, found, Some(100), Undefined)
        ELSE IF AllWordsIn(expectedWords, foundWords)
        THEN FieldResult(TRUE, expected, found, Some(95), Undefined)
        ELSE IF AllWordsIn(foundWords, expectedWords) /\ Len(foundWords) > 0
        THEN FieldResult(TRUE, expected, found, Some(90), Undefined)
        ELSE FieldResult(FALSE, expected, found, Undefined, Some(<<fieldName, "mismatch">>))

(***************************************************************************)
(* Double arithmetic of Math.abs(expected - found) <= 0.5                   *)
(*                                                                          *)
(* An ABV of k tenths is the double nearest to k/10.  With 2^E <= k/10 <    *)
(* 2^(E+1) its ulp is 2^(E-52), and k/10 = (k * 2^(51-E) / 5) ulp, so the   *)
(* nearest double is off by -r/5 ulp (r = k * 2^(51-E) mod 5 in {0,1,2})    *)
(* or by (5-r)/5 ulp (r in {3,4}).  RoundErr(k) is that error counted in    *)
(* units of 2^-56 / 5, the fifth of the smallest ulp (k = 1, E = -4).       *)
(* The subtraction rounds to nearest, ties to even, so its result is at     *)
(* most 0.5 iff the exact difference is at most 0.5 + 2^-54, the midpoint   *)
(* between 0.5 and the next double, which is 20 units above 0.5.            *)
(***************************************************************************)
RECURSIVE BinadeFrom(_, _)
BinadeFrom(k, e) ==
  IF (IF e + 1 >= 0 THEN 10 * Pow2(e + 1) <= k ELSE 10 <= k * Pow2(-(e + 1)))
  THEN BinadeFrom(k, e + 1)
  ELSE e

\* E with 2^E <= k/10 < 2^(E+1), for k >= 1
Binade(k) == BinadeFrom(k, -4)

\* 2^n mod 5
Pow2Mod5(n) == <<1, 2, 4, 3>>[(n % 4) + 1]

RoundErr(k) ==
  IF k = 0 THEN 0
  ELSE LET e == Binade(k)
           r == ((k % 5) * Pow2Mod5(51 - e)) % 5
       IN  (IF r <= 2 THEN -r ELSE 5 - r) * Pow2(e + 4)

\* Math.abs(a - b) <= 0.5 on the doubles nearest to a/10 and b/10
WithinTolerance(a, b) ==
  LET hi == Max2(a, b)
      lo == Min2(a, b)
  IN  IF hi - lo < 5 THEN TRUE
      ELSE IF hi - lo > 5 THEN FALSE
      ELSE RoundErr(hi) - RoundErr(lo) <= 20

(***************************************************************************)
(* lib/visionExtraction.ts: verifyAlcoholField                              *)
(***************************************************************************)
VerifyAlcoholField(expected, found) ==
  IF IsNull(found)
  THEN FieldResult(FALSE, PercentString(expected), Null, Undefined,
                   Some("Alcohol content not found on label"))
  \* Math.abs(expected - NaN) <= tolerance is false
  ELSE IF IsMistyped(found)
  THEN FieldResult(FALSE, PercentString(expected), Some(<<"N", "a", "N", "%">>),
                   Undefined, Some("Alcohol content mismatch"))
  ELSE IF WithinTolerance(expected, Val(found))
       THEN FieldResult(TRUE, PercentString(expected), Some(PercentString(Val(found))),
                        Some(100), Undefined)
       ELSE FieldResult(FALSE, PercentString(expected), Some(PercentString(Val(found))),
                        Undefined, Some("Alcohol content mismatch"))


(***************************************************************************)
(* lib/visionExtraction.ts: normalizeVolume, levenshteinDistance,           *)
(* verifyNetContentsField                                                   *)
(***************************************************************************)
\* length of the unit (ml|l|oz|gal) at position i, first alternative that
\* matches; 0 if none
UnitLenAt(s, i) ==
  IF StartsWithAt(s, i, <<"m","l">>) THEN 2
  ELSE IF StartsWithAt(s, i, <<"l">>) THEN 1
  ELSE IF StartsWithAt(s, i, <<"o","z">>) THEN 2
  ELSE IF StartsWithAt(s, i, <<"g","a","l">>) THEN 3
  ELSE 0

\* s.replace(/(\d+)\s*(ml|l|oz|gal)/gi, '$1$2') on a lower-case string
RECURSIVE JoinNumberUnitFrom(_, _)
JoinNumberUnitFrom(s, i) ==
  IF i > Len(s) THEN <<>>
  ELSE IF IsDigit(s[i])
       THEN LET j == SkipDigits(s, i)
                k == SkipSpaces(s, j)
                u == UnitLenAt(s, k)
            IN  IF u > 0
                THEN SubSeq(s, i, j - 1) \o SubSeq(s, k, k + u - 1)
                       \o JoinNumberUnitFrom(s, k + u)
                ELSE <<s[i]>> \o JoinNumberUnitFrom(s, i + 1)
       ELSE <<s[i]>> \o JoinNumberUnitFrom(s, i + 1)

\* length of the match of lit followed by an optional s at position i
OptionalS(s, i, lit) ==
  IF StartsWithAt(s, i, lit)
  THEN (IF StartsWithAt(s, i + Len(lit), <<"s">>) THEN Len(lit) + 1 ELSE Len(lit))
  ELSE 0

\* length of the match of the named pattern at position i, 0 if none
MatchLen(pat, s, i) ==
  CASE pat = "milliliters?" -> OptionalS(s, i, <<"m","i","l","l","i","l","i","t","e","r">>)
    [] pat = "liters?|litres?" ->
         IF OptionalS(s, i, <<"l","i","t","e","r">>) > 0
         THEN OptionalS(s, i, <<"l","i","t","e","r">>)
         ELSE OptionalS(s, i, <<"l","i","t","r","e">>)
    [] pat = "fl.? *oz" ->
         IF StartsWithAt(s, i, <<"f","l">>)
         THEN LET d == IF StartsWithAt(s, i + 2, <<".">>) THEN i + 3 ELSE i + 2
                  k == SkipSpaces(s, d)
              IN  IF StartsWithAt(s, k, <<"o","z">>) THEN k + 2 - i ELSE 0
         ELSE 0
    [] pat = "ounces?" -> OptionalS(s, i, <<"o","u","n","c","e">>)
    [] pat = "gallon" -> IF StartsWithAt(s, i, <<"g","a","l","l","o","n">>) THEN 6 ELSE 0

\* s.replace(/pat/g, repl): leftmost matches, scanning on after each match
RECURSIVE ReplaceAllFrom(_, _, _, _)
ReplaceAllFrom(pat, repl, s, i) ==
  IF i > Len(s) THEN <<>>
  ELSE LET n == MatchLen(pat, s, i)
       IN  IF n > 0
           THEN repl \o ReplaceAllFrom(pat, repl, s, i + n)
           ELSE <<s[i]>> \o ReplaceAllFrom(pat, repl, s, i + 1)

ReplaceAll(pat, repl, s) == ReplaceAllFrom(pat, repl, s, 1)

NormalizeVolume(str) ==
  LET s1 == CollapseWhitespace(Trim(ToLowerCase(str)))
      s2 == JoinNumberUnitFrom(s1, 1)
      s3 == ReplaceAll("milliliters?", <<"m","l">>, s2)
      s4 == ReplaceAll("liters?|litres?", <<"l">>, s3)
      s5 == ReplaceAll("fl.? *oz", <<"f","l","o","z">>, s4)
      s6 == ReplaceAll("ounces?", <<"o","z">>, s5)
  IN  RemoveWhitespace(s6)

\* the inner loop over the columns: cur holds matrix[i][0 .. j-1] at the
\* indices 1..j and prev holds the row matrix[i-1]
RECURSIVE EditRow(_, _, _, _, _, _)
EditRow(str1, str2, i, prev, cur, subcost) ==
  LET j == Len(cur)
  IN  IF j > Len(str2) THEN cur
      ELSE EditRow(str1, str2, i, prev,
                   Append(cur, IF str1[i] = str2[j]
                               THEN prev[j]
                               ELSE Min3(prev[j] + subcost, cur[j] + 1, prev[j + 1] + 1)),
                   subcost)

\* the outer loop over the rows 1..len1; every row has the columns 0..len2
RECURSIVE EditRows(_, _, _, _, _)
EditRows(str1, str2, i, prev, subcost) ==
  IF i > Len(str1) \/ Len(prev) # Len(str2) + 1 THEN prev
  ELSE EditRows(str1, str2, i + 1, EditRow(str1, str2, i, prev, <<i>>, subcost), subcost)

LevenshteinDistance(str1, str2) ==
  EditRows(str1, str2, 1, [j \in 1..(Len(str2) + 1) |-> j - 1] \o <<>>, 1)[Len(str2) + 1]

\* Math.round(n / d) for n >= 0, d > 0
RoundDiv(n, d) == (2 * n + d) \div (2 * d)

\* a variant of verifyNetContentsField whose similarity test is strict
VerifyNetContentsFieldStrict(expected, found) ==
  IF IsNull(found) \/ Val(found) = <<>>
  THEN FieldResult(FALSE, expected, Null, Undefined, Some("Net contents not found on label"))
  ELSE
    LET normalizedExpected == NormalizeVolume(expected)
        normalizedFound == NormalizeVolume(Val(found))
        maxLen == Max2(Len(normalizedExpected), Len(normalizedFound))
        dist == LevenshteinDistance(normalizedExpected, normalizedFound)
    IN  IF normalizedExpected = normalizedFound
        THEN FieldResult(TRUE, expected, found, Some(100), Undefined)
        ELSE IF 100 * (maxLen - dist) > 80 * maxLen
        THEN FieldResult(TRUE, expected, found,
                         Some(RoundDiv(100 * (maxLen - dist), maxLen)), Undefined)
        ELSE FieldResult(FALSE, expected, found, Undefined, Some("Net contents mismatch"))

VerifyNetContentsField(expected, found) ==
  IF IsNull(found) \/ (IsMistyped(found) /\ ~Truthy(found))
       \/ (~IsMistyped(found) /\ Val(found) = <<>>)
  THEN FieldResult(FALSE, expected, Null, Undefined, Some("Net contents not found on label"))
  \* str.toLowerCase is not a function
  ELSE IF IsMistyped(found) THEN TypeError
  ELSE
    LET normalizedExpected == NormalizeVolume(expected)
        normalizedFound == NormalizeVolume(Val(found))
        maxLen == Max2(Len(normalizedExpected), Len(normalizedFound))
        dist == LevenshteinDistance(normalizedExpected, normalizedFound)
    IN  IF normalizedExpected = normalizedFound
        THEN FieldResult(TRUE, expected, found, Some(100), Undefined)
        \* (1 - dist / maxLen) * 100 >= 80
        ELSE IF 100 * (maxLen - dist) >= 80 * maxLen
        THEN FieldResult(TRUE, expected, found,
                         Some(RoundDiv(100 * (maxLen - dist), maxLen)), Undefined)
        ELSE FieldResult(FALSE, expected, found, Undefined, Some("Net contents mismatch"))

(***************************************************************************)
(* lib/visionExtraction.ts: verifyWarningField                              *)
(***************************************************************************)
\* a variant of verifyWarningField that reports a missing warning without
\* an error message
VerifyWarningFieldSilent(hasWarning) ==
  IF hasWarning
  THEN FieldResult(TRUE, "GOVERNMENT WARNING present", Some("GOVERNMENT WARNING found"),
                   Some(100), Undefined)
  ELSE FieldResult(FALSE, "GOVERNMENT WARNING present", Null, Undefined, Undefined)

VerifyWarningField(hasWarning) ==
  IF hasWarning
  THEN FieldResult(TRUE, "GOVERNMENT WARNING present", Some("GOVERNMENT WARNING found"),
                   Some(100), Undefined)
  ELSE FieldResult(FALSE, "GOVERNMENT WARNING present", Null, Undefined,
                   Some("Government warning statement is missing from the label"))

(***************************************************************************)
(* lib/visionExtraction.ts: extractLabelDataWithVision, the coercion of     *)
(* the parsed JSON (x || null, x ? Number(x) : null, Boolean(x))            *)
(***************************************************************************)
\* x || null: a falsy value of any type becomes null, any other value is
\* handed on as it is
StringOrNull(x) ==
  IF IsNull(x) THEN Null
  ELSE IF IsMistyped(x) THEN (IF Truthy(x) THEN x ELSE Null)
  ELSE IF Val(x) = <<>> THEN Null ELSE x

\* the value of a sequence of decimal digits
RECURSIVE DigitsValue(_, _)
DigitsValue(s, acc) ==
  IF s = <<>> THEN acc ELSE DigitsValue(Tail(s), 10 * acc + DigitValue(Head(s)))

\* Number(s) of a string, in tenths: its value if it is a decimal numeral,
\* NaN if not (the strings used here have no surrounding whitespace, sign
\* or exponent and at most one digit after the decimal point)
NumberOfString(str) ==
  IF /\ str # <<>>
     /\ IsDigit(str[1])
     /\ \A i \in 1..Len(str) : IsDigit(str[i]) \/ str[i] = "."
     /\ Cardinality({i \in 1..Len(str) : str[i] = "."}) <= 1
  THEN LET j == SkipDigits(str, 1)
            whole == DigitsValue(SubSeq(str, 1, j - 1), 0)
       IN  Some(IF j + 1 <= Len(str) THEN 10 * whole + DigitValue(str[j + 1])
                ELSE 10 * whole)
  ELSE NaN

\* x ? Number(x) : null
NumberOrNull(x) ==
  IF IsNull(x) THEN Null
  ELSE IF IsMistyped(x)
  THEN (IF ~Truthy(x) THEN Null
        ELSE IF x[1] = "boolean" THEN Some(10)
        ELSE NumberOfString(x[2]))
  ELSE IF Val(x) = 0 THEN Null ELSE x

ExtractedRecord(json) ==
  [brandName |-> StringOrNull(json.brandName),
   productType |-> StringOrNull(json.productType),
   alcoholContent |-> NumberOrNull(json.alcoholContent),
   netContents |-> StringOrNull(json.netContents),
   hasGovernmentWarning |-> json.hasGovernmentWarning]

(***************************************************************************)
(* lib/visionExtraction.ts: verifyLabelWithVision                           *)
(***************************************************************************)
FieldNames == {"brandName", "productType", "alcoholContent", "netContents",
               "governmentWarning"}

VisionFields(form, extracted) ==
  [brandName |-> VisionVerifyBrandName(form.brandName, extracted.brandName),
   productType |-> VerifyField("Product type", form.productType, extracted.productType),
   alcoholContent |-> VerifyAlcoholField(form.alcoholContent, extracted.alcoholContent),
   netContents |-> VerifyNetContentsField(form.netContents, extracted.netContents),
   governmentWarning |-> VerifyWarningField(extracted.hasGovernmentWarning)]

\* Object.values(fields).every((field) => field.matched)
VisionSuccess(fieldResults) == \A f \in FieldNames : fieldResults[f].matched

\* an error raised while the object literal of the fields is built
VisionThrows(fieldResults) == \E f \in FieldNames : Threw(fieldResults[f])

\* a fail-fast variant of VisionOutcome: the first field that does not match
\* ends the verification with an error
VisionOutcomeFailFast(fieldResults) ==
  IF VisionThrows(fieldResults) THEN TypeError
  ELSE IF \E f \in FieldNames : ~fieldResults[f].matched
  THEN [kind |-> "throw", error |-> "mismatch"]
  ELSE [kind |-> "result", success |-> TRUE, fields |-> fieldResults]

\* the raised error, or return { success, fields }
VisionOutcome(fieldResults) ==
  IF VisionThrows(fieldResults) THEN TypeError
  ELSE [kind |-> "result", success |-> VisionSuccess(fieldResults), fields |-> fieldResults]

VerifyLabelWithVision(form, extracted) == VisionOutcome(VisionFields(form, extracted))


(***************************************************************************)
(* lib/textMatching.ts: normalizeText, fuzzyMatch, findBestMatch            *)
(***************************************************************************)
FUZZY_MATCH_THRESHOLD == 80

\* the characters /[^\w\s%.-]/g leaves in place
IsKeptChar(c) == IsWordChar(c) \/ IsSpace(c) \/ c = "%" \/ c = "." \/ c = "-"

NormalizeText(text) ==
  SelectSeq(CollapseWhitespace(Trim(ToLowerCase(text))), IsKeptChar)

\* full_process of fuzzball, applied by ratio() under its default options:
\* every character that is not a letter or a digit becomes a space, then
\* lower case, whitespace runs collapsed, trimmed
FullProcess(str) ==
  Trim(CollapseWhitespace(
    ToLowerCase([i \in 1..Len(str) |->
                   IF IsWordChar(str[i]) /\ str[i] # "_" THEN str[i] ELSE " "] \o <<>>)))

\* ratio of fuzzball under its default options: 0 for an empty operand,
\* otherwise Math.round(100 * (lensum - distance) / lensum) with the edit
\* distance that charges 2 for a substitution
Ratio(str1, str2) ==
  LET a == FullProcess(str1)
      b == FullProcess(str2)
      lensum == Len(a) + Len(b)
      dist == EditRows(a, b, 1, [j \in 1..(Len(b) + 1) |-> j - 1] \o <<>>, 2)[Len(b) + 1]
  IN  IF a = <<>> \/ b = <<>> THEN 0
      ELSE RoundDiv(100 * (lensum - dist), lensum)

FuzzyMatch(str1, str2) == Ratio(NormalizeText(str1), NormalizeText(str2))

\* text.split(/\s+/): the pieces between whitespace runs, an empty piece
\* before a leading run and after a trailing one
RECURSIVE SplitFrom(_, _, _)
SplitFrom(s, i, cur) ==
  IF i > Len(s) THEN <<cur>>
  ELSE IF IsSpace(s[i])
       THEN <<cur>> \o SplitFrom(s, SkipSpaces(s, i), <<>>)
       ELSE SplitFrom(s, i + 1, Append(cur, s[i]))

SplitWhitespace(s) == SplitFrom(s, 1, <<>>)

\* words.slice(i, i + windowSize).join(' ') with 0-based i
RECURSIVE JoinWords(_, _, _)
JoinWords(words, from, to) ==
  IF from > to THEN <<>>
  ELSE IF from = to THEN words[from]
  ELSE words[from] \o <<" ">> \o JoinWords(words, from + 1, to)

MaxWindowSize == 10

\* the inner loop of findBestMatch over the start indices (1-based here) of
\* the windows of one size
RECURSIVE BestOverStarts(_, _, _, _, _, _)
BestOverStarts(search, words, windowSize, i, threshold, bestMatch) ==
  IF i > Len(words) - windowSize + 1 THEN bestMatch
  ELSE LET window == JoinWords(words, i, i + windowSize - 1)
           score == FuzzyMatch(search, window)
       IN  IF (IsNull(bestMatch) \/ score > Val(bestMatch).score) /\ score >= threshold
           THEN BestOverStarts(search, words, windowSize, i + 1, threshold,
                               Some([match |-> window, score |-> score]))
           ELSE BestOverStarts(search, words, windowSize, i + 1, threshold, bestMatch)

\* the outer loop of findBestMatch over the window sizes 1..min(10, length)
RECURSIVE BestOverSizes(_, _, _, _, _)
BestOverSizes(search, words, windowSize, threshold, bestMatch) ==
  IF windowSize > Min2(MaxWindowSize, Len(words)) THEN bestMatch
  ELSE BestOverSizes(search, words, windowSize + 1, threshold,
                     BestOverStarts(search, words, windowSize, 1, threshold, bestMatch))

\* a variant of findBestMatch that looks at the single words only
FindBestMatchSingleWords(searchTerm, text, threshold) ==
  BestOverStarts(NormalizeText(searchTerm), SplitWhitespace(text), 1, 1, threshold, Null)

FindBestMatch(searchTerm, text, threshold) ==
  BestOverSizes(NormalizeText(searchTerm), SplitWhitespace(text), 1, threshold, Null)


(***************************************************************************)
(* lib/textMatching.ts: findAlcoholContent                                  *)
(***************************************************************************)
\* end (exclusive) of the match of \d+\.?\d* at the digit at position i
NumberEnd(s, i) ==
  LET j == SkipDigits(s, i)
  IN  IF j <= Len(s) /\ s[j] = "." THEN SkipDigits(s, j + 1) ELSE j

\* parseFloat of a string matched by \d+\.?\d*, in tenths; the texts of the
\* model carry at most one digit after the decimal point
ParseFloat(num) ==
  LET j == SkipDigits(num, 1)
      whole == DigitsValue(SubSeq(num, 1, j - 1), 0)
  IN  IF j + 1 <= Len(num) THEN 10 * whole + DigitValue(num[j + 1]) ELSE 10 * whole

\* length of the match of (ABV|alc\.?\/vol\.?|alcohol) at position i of a
\* lower-case string, 0 if none
AbvWordLenAt(s, i) ==
  IF StartsWithAt(s, i, <<"a","b","v">>) THEN 3
  ELSE LET d == IF StartsWithAt(s, i + 3, <<".">>) THEN i + 4 ELSE i + 3
       IN  IF StartsWithAt(s, i, <<"a","l","c">>) /\ StartsWithAt(s, d, <<"/","v","o","l">>)
           THEN (IF StartsWithAt(s, d + 4, <<".">>) THEN d + 5 - i ELSE d + 4 - i)
           ELSE IF StartsWithAt(s, i, <<"a","l","c","o","h","o","l">>) THEN 7
           ELSE 0

\* position of the % that closes \d+\.?\d*\s*% begun at the digit at i, 0 if
\* the text does not continue that way
PercentAt(s, i) ==
  LET m == SkipSpaces(s, NumberEnd(s, i))
  IN  IF m <= Len(s) /\ s[m] = "%" THEN m ELSE 0

\* percent >= 0 && percent <= 100, on tenths
ValidPercent(v) == v >= 0 /\ v <= 1000

PushPercent(acc, s, i) ==
  LET v == ParseFloat(SubSeq(s, i, NumberEnd(s, i) - 1))
  IN  IF ValidPercent(v) THEN Append(acc, v) ELSE acc

\* matchAll of /(\d+\.?\d*)\s*%\s*(ABV|alc\.?\/vol\.?|alcohol)?/gi
RECURSIVE ScanPercentFirst(_, _, _)
ScanPercentFirst(s, i, acc) ==
  IF i > Len(s) THEN acc
  ELSE IF IsDigit(s[i]) /\ PercentAt(s, i) > 0
       THEN LET w == SkipSpaces(s, PercentAt(s, i) + 1)
            IN  ScanPercentFirst(s, w + AbvWordLenAt(s, w), PushPercent(acc, s, i))
       ELSE ScanPercentFirst(s, i + 1, acc)

\* matchAll of /(ABV|alc\.?\/vol\.?|alcohol)?\s*(\d+\.?\d*)\s*%/gi; a match
\* with the word in group 1 gives parseFloat(word) = NaN and is dropped
RECURSIVE ScanPercentSecond(_, _, _)
ScanPercentSecond(s, i, acc) ==
  IF i > Len(s) THEN acc
  ELSE LET w == AbvWordLenAt(s, i)
           q == SkipSpaces(s, i + w)
       IN  IF q <= Len(s) /\ IsDigit(s[q]) /\ PercentAt(s, q) > 0
           THEN ScanPercentSecond(s, PercentAt(s, q) + 1,
                                  IF w > 0 THEN acc ELSE PushPercent(acc, s, q))
           ELSE ScanPercentSecond(s, i + 1, acc)

\* [...new Set(list)]
RECURSIVE Dedupe(_, _)
Dedupe(list, acc) ==
  IF list = <<>> THEN acc
  ELSE Dedupe(Tail(list),
              IF \E k \in 1..Len(acc) : acc[k] = Head(list) THEN acc
              ELSE Append(acc, Head(list)))

FindAlcoholContent(text) ==
  LET s == ToLowerCase(text)
  IN  Dedupe(ScanPercentSecond(s, 1, ScanPercentFirst(s, 1, <<>>)), <<>>)

(***************************************************************************)
(* lib/textMatching.ts: findNetContents, normalizeVolumeUnit,               *)
(* findGovernmentWarning                                                    *)
(***************************************************************************)
\* length of the match, at position i of a lower-case string, of
\* (ml|mL|ML|milliliters?|l|L|liters?|litres?|oz|fl\.?\s*oz|ounces?|gallon|gal),
\* first alternative that matches; 0 if none
VolumeUnitLenAt(s, i) ==
  IF StartsWithAt(s, i, <<"m","l">>) THEN 2
  ELSE IF MatchLen("milliliters?", s, i) > 0 THEN MatchLen("milliliters?", s, i)
  ELSE IF StartsWithAt(s, i, <<"l">>) THEN 1
  ELSE IF MatchLen("liters?|litres?", s, i) > 0 THEN MatchLen("liters?|litres?", s, i)
  ELSE IF StartsWithAt(s, i, <<"o","z">>) THEN 2
  ELSE IF MatchLen("fl.? *oz", s, i) > 0 THEN MatchLen("fl.? *oz", s, i)
  ELSE IF MatchLen("ounces?", s, i) > 0 THEN MatchLen("ounces?", s, i)
  ELSE IF MatchLen("gallon", s, i) > 0 THEN 6
  ELSE IF StartsWithAt(s, i, <<"g","a","l">>) THEN 3
  ELSE 0

\* matchAll of the volume pattern; text keeps its case, s is its lower case
RECURSIVE ScanVolumes(_, _, _, _)
ScanVolumes(text, s, i, acc) ==
  IF i > Len(s) THEN acc
  ELSE IF IsDigit(s[i])
       THEN LET k == SkipSpaces(s, NumberEnd(s, i))
                u == VolumeUnitLenAt(s, k)
            IN  IF u > 0
                THEN ScanVolumes(text, s, k + u, Append(acc, Trim(SubSeq(text, i, k + u - 1))))
                ELSE ScanVolumes(text, s, i + 1, acc)
       ELSE ScanVolumes(text, s, i + 1, acc)

FindNetContents(text) == ScanVolumes(text, ToLowerCase(text), 1, <<>>)

NormalizeVolumeUnit(volume) ==
  LET s1 == CollapseWhitespace(ToLowerCase(volume))
      s2 == ReplaceAll("milliliters?", <<"m","l">>, s1)
      s3 == ReplaceAll("liters?|litres?", <<"l">>, s2)
      s4 == ReplaceAll("fl.? *oz", <<"f","l"," ","o","z">>, s3)
      s5 == ReplaceAll("ounces?", <<"o","z">>, s4)
  IN  ReplaceAll("gallon", <<"g","a","l">>, s5)

GovernmentWarningPhrase ==
  <<"g","o","v","e","r","n","m","e","n","t"," ","w","a","r","n","i","n","g">>

FindGovernmentWarning(text) == Includes(ToLowerCase(text), GovernmentWarningPhrase)


(***************************************************************************)
(* lib/productTypeClassifier.ts: categoryKeywords, classifyProductType,     *)
(* categoriesMatch.  "e-acute" stands for the one character of 'rose' with  *)
(* an acute accent.                                                         *)
(***************************************************************************)
Wine == <<"W","i","n","e">>
DistilledSpirits == <<"D","i","s","t","i","l","l","e","d"," ","S","p","i","r","i","t","s">>
MaltBeverage == <<"M","a","l","t"," ","B","e","v","e","r","a","g","e">>

WineKeywords == <<
  <<"w","i","n","e">>,
  <<"c","a","b","e","r","n","e","t">>,
  <<"m","e","r","l","o","t">>,
  <<"c","h","a","r","d","o","n","n","a","y">>,
  <<"p","i","n","o","t">>,
  <<"s","a","u","v","i","g","n","o","n">>,
  <<"r","i","e","s","l","i","n","g">>,
  <<"z","i","n","f","a","n","d","e","l">>,
  <<"s","y","r","a","h">>,
  <<"s","h","i","r","a","z">>,
  <<"m","a","l","b","e","c">>,
  <<"t","e","m","p","r","a","n","i","l","l","o">>,
  <<"s","a","n","g","i","o","v","e","s","e">>,
  <<"n","e","b","b","i","o","l","o">>,
  <<"g","r","e","n","a","c","h","e">>,
  <<"v","i","o","g","n","i","e","r">>,
  <<"m","o","s","c","a","t","o">>,
  <<"g","e","w","u","r","z","t","r","a","m","i","n","e","r">>,
  <<"r","e","d"," ","w","i","n","e">>,
  <<"w","h","i","t","e"," ","w","i","n","e">>,
  <<"r","o","s","e-acute">>,
  <<"r","o","s","e">>,
  <<"b","l","u","s","h">>,
  <<"t","a","b","l","e"," ","w","i","n","e">>,
  <<"c","h","a","m","p","a","g","n","e">>,
  <<"p","r","o","s","e","c","c","o">>,
  <<"c","a","v","a">>,
  <<"s","p","a","r","k","l","i","n","g"," ","w","i","n","e">>,
  <<"s","p","a","r","k","l","i","n","g">>,
  <<"p","o","r","t">>,
  <<"s","h","e","r","r","y">>,
  <<"v","e","r","m","o","u","t","h">>,
  <<"m","a","d","e","i","r","a">>,
  <<"m","a","r","s","a","l","a">>,
  <<"s","a","k","e">>,
  <<"r","i","c","e"," ","w","i","n","e">>,
  <<"m","e","a","d">>,
  <<"h","o","n","e","y"," ","w","i","n","e">>,
  <<"d","e","s","s","e","r","t"," ","w","i","n","e">>,
  <<"i","c","e"," ","w","i","n","e">>,
  <<"f","o","r","t","i","f","i","e","d"," ","w","i","n","e">>
>>

DistilledSpiritsKeywords == <<
  <<"w","h","i","s","k","e","y">>,
  <<"w","h","i","s","k","y">>,
  <<"b","o","u","r","b","o","n">>,
  <<"s","c","o","t","c","h">>,
  <<"r","y","e">>,
  <<"t","e","n","n","e","s","s","e","e"," ","w","h","i","s","k","e","y">>,
  <<"i","r","i","s","h"," ","w","h","i","s","k","e","y">>,
  <<"c","a","n","a","d","i","a","n"," ","w","h","i","s","k","y">>,
  <<"s","i","n","g","l","e"," ","m","a","l","t">>,
  <<"b","l","e","n","d","e","d"," ","w","h","i","s","k","e","y">>,
  <<"v","o","d","k","a">>,
  <<"g","i","n">>,
  <<"r","u","m">>,
  <<"t","e","q","u","i","l","a">>,
  <<"m","e","z","c","a","l">>,
  <<"b","r","a","n","d","y">>,
  <<"c","o","g","n","a","c">>,
  <<"a","r","m","a","g","n","a","c">>,
  <<"g","r","a","p","p","a">>,
  <<"p","i","s","c","o">>,
  <<"l","i","q","u","e","u","r">>,
  <<"c","o","r","d","i","a","l">>,
  <<"s","c","h","n","a","p","p","s">>,
  <<"a","b","s","i","n","t","h","e">>,
  <<"s","p","i","r","i","t">>,
  <<"s","p","i","r","i","t","s">>,
  <<"d","i","s","t","i","l","l","e","d">>,
  <<"d","i","s","t","i","l","l","e","d"," ","s","p","i","r","i","t","s">>,
  <<"m","o","o","n","s","h","i","n","e">>,
  <<"e","v","e","r","c","l","e","a","r">>,
  <<"g","r","a","i","n"," ","a","l","c","o","h","o","l">>,
  <<"o","u","z","o">>,
  <<"a","r","a","k">>,
  <<"r","a","k","i">>,
  <<"b","a","i","j","i","u">>,
  <<"s","o","j","u">>,
  <<"s","h","o","c","h","u">>,
  <<"a","q","u","a","v","i","t">>,
  <<"g","e","n","e","v","e","r">>,
  <<"c","a","c","h","a","c","a">>
>>

MaltBeverageKeywords == <<
  <<"b","e","e","r">>,
  <<"a","l","e">>,
  <<"l","a","g","e","r">>,
  <<"p","i","l","s","n","e","r">>,
  <<"p","i","l","s","e","n">>,
  <<"i","p","a">>,
  <<"i","n","d","i","a"," ","p","a","l","e"," ","a","l","e">>,
  <<"p","a","l","e"," ","a","l","e">>,
  <<"a","m","b","e","r"," ","a","l","e">>,
  <<"b","r","o","w","n"," ","a","l","e">>,
  <<"s","t","o","u","t">>,
  <<"p","o","r","t","e","r">>,
  <<"w","h","e","a","t"," ","b","e","e","r">>,
  <<"h","e","f","e","w","e","i","z","e","n">>,
  <<"w","i","t","b","i","e","r">>,
  <<"s","o","u","r">>,
  <<"g","o","s","e">>,
  <<"s","a","i","s","o","n">>,
  <<"f","a","r","m","h","o","u","s","e"," ","a","l","e">>,
  <<"b","e","l","g","i","a","n"," ","a","l","e">>,
  <<"k","o","l","s","c","h">>,
  <<"b","o","c","k">>,
  <<"d","o","p","p","e","l","b","o","c","k">>,
  <<"d","u","n","k","e","l">>,
  <<"m","a","r","z","e","n">>,
  <<"o","k","t","o","b","e","r","f","e","s","t">>,
  <<"l","a","m","b","i","c">>,
  <<"g","u","e","u","z","e">>,
  <<"k","r","i","e","k">>,
  <<"b","a","r","l","e","y","w","i","n","e">>,
  <<"b","a","r","l","e","y"," ","w","i","n","e">>,
  <<"d","u","b","b","e","l">>,
  <<"t","r","i","p","e","l">>,
  <<"q","u","a","d">>,
  <<"q","u","a","d","r","u","p","e","l">>,
  <<"m","a","l","t"," ","b","e","v","e","r","a","g","e">>,
  <<"m","a","l","t"," ","l","i","q","u","o","r">>,
  <<"h","a","r","d"," ","s","e","l","t","z","e","r">>,
  <<"s","e","l","t","z","e","r">>,
  <<"c","i","d","e","r">>,
  <<"h","a","r","d"," ","c","i","d","e","r">>,
  <<"p","e","r","r","y">>,
  <<"p","e","a","r"," ","c","i","d","e","r">>,
  <<"f","l","a","v","o","r","e","d"," ","m","a","l","t"," ","b","e","v","e","r","a","g","e">>,
  <<"f","m","b">>,
  <<"a","l","c","o","p","o","p">>
>>

\* the (category, keyword) pairs in the order the two nested loops of
\* classifyProductType visit them
KeywordEntries ==
  [k \in 1..Len(WineKeywords) |-> [category |-> Wine, keyword |-> WineKeywords[k]]]
  \o [k \in 1..Len(DistilledSpiritsKeywords) |->
        [category |-> DistilledSpirits, keyword |-> DistilledSpiritsKeywords[k]]]
  \o [k \in 1..Len(MaltBeverageKeywords) |->
        [category |-> MaltBeverage, keyword |-> MaltBeverageKeywords[k]]]

\* confidence of a keyword that occurs in the normalized text
\* the confidence of a keyword hit without its cap
KeywordConfidenceUncapped(normalized, keyword) ==
  LET keywordLength == Len(keyword)
      position == IndexOf(normalized, keyword)
      before == position = 0 \/ IsSpace(normalized[position])
      after == \/ position + keywordLength = Len(normalized)
               \/ IsSpace(normalized[position + keywordLength + 1])
      base == 60 + Min2(keywordLength * 2, 30)
      bonus == (IF before /\ after THEN 10 ELSE 0) + (IF position < 10 THEN 5 ELSE 0)
  IN  base + bonus

KeywordConfidence(normalized, keyword) ==
  LET keywordLength == Len(keyword)
      position == IndexOf(normalized, keyword)
      before == position = 0 \/ IsSpace(normalized[position])
      after == \/ position + keywordLength = Len(normalized)
               \/ IsSpace(normalized[position + keywordLength + 1])
      base == 60 + Min2(keywordLength * 2, 30)
      bonus == (IF before /\ after THEN 10 ELSE 0) + (IF position < 10 THEN 5 ELSE 0)
  IN  Min2(base + bonus, 95)

NoClassification == [category |-> Null, confidence |-> 0, matchedKeyword |-> Undefined]

\* the loop body for the visited pairs whose keyword the text includes
\* (hits, in visiting order): a strictly higher confidence replaces bestMatch
RECURSIVE ClassifyFrom(_, _, _, _)
ClassifyFrom(normalized, hits, h, bestMatch) ==
  IF h > Len(hits) THEN bestMatch
  ELSE LET entry == KeywordEntries[hits[h]]
           confidence == KeywordConfidence(normalized, entry.keyword)
       IN  IF IsNull(bestMatch.category) \/ confidence > bestMatch.confidence
           THEN ClassifyFrom(normalized, hits, h + 1,
                             [category |-> Some(entry.category),
                              confidence |-> confidence,
                              matchedKeyword |-> Some(entry.keyword)])
           ELSE ClassifyFrom(normalized, hits, h + 1, bestMatch)

ClassifyProductType(productText) ==
  IF Trim(productText) = <<>> THEN NoClassification
  ELSE LET normalized == Trim(ToLowerCase(productText))
           hits == SelectSeq(Indices(Len(KeywordEntries)),
                             LAMBDA k : Includes(normalized, KeywordEntries[k].keyword))
       IN  ClassifyFrom(normalized, hits, 1, NoClassification)

CategoriesMatch(category1, category2) ==
  Trim(ToLowerCase(category1)) = Trim(ToLowerCase(category2))

(***************************************************************************)
(* lib/verification.ts: verifyProductType, its productTypePattern           *)
(***************************************************************************)
ProductTypeWords == <<
  <<"b","o","u","r","b","o","n">>,
  <<"w","h","i","s","k","e","y">>,
  <<"w","h","i","s","k","y">>,
  <<"v","o","d","k","a">>,
  <<"g","i","n">>,
  <<"r","u","m">>,
  <<"t","e","q","u","i","l","a">>,
  <<"w","i","n","e">>,
  <<"b","e","e","r">>,
  <<"a","l","e">>,
  <<"l","a","g","e","r">>,
  <<"i","p","a">>,
  <<"s","t","o","u","t">>,
  <<"p","o","r","t","e","r">>,
  <<"c","a","b","e","r","n","e","t">>,
  <<"m","e","r","l","o","t">>,
  <<"c","h","a","r","d","o","n","n","a","y">>,
  <<"p","i","n","o","t">>,
  <<"s","a","u","v","i","g","n","o","n">>
>>

\* end (exclusive) of the product word at position i of a lower-case string,
\* 0 if none
ProductWordEnd(s, i) ==
  IF \E k \in 1..Len(ProductTypeWords) : StartsWithAt(s, i, ProductTypeWords[k])
  THEN i + Len(ProductTypeWords[CHOOSE k \in 1..Len(ProductTypeWords) :
                                  /\ StartsWithAt(s, i, ProductTypeWords[k])
                                  /\ \A h \in 1..(k - 1) :
                                       ~StartsWithAt(s, i, ProductTypeWords[h])])
  ELSE 0

\* position after lit\s+ at position i, 0 if it does not match there
AfterWordAndSpaces(s, i, lit) ==
  IF StartsWithAt(s, i, lit) /\ i + Len(lit) <= Len(s) /\ IsSpace(s[i + Len(lit)])
  THEN SkipSpaces(s, i + Len(lit))
  ELSE 0

\* end of (?:straight\s+)?(?:bourbon|...) at position i, 0 if no match
StraightWordEnd(s, i) ==
  LET a == AfterWordAndSpaces(s, i, <<"s","t","r","a","i","g","h","t">>)
  IN  IF a > 0 /\ ProductWordEnd(s, a) > 0 THEN ProductWordEnd(s, a)
      ELSE ProductWordEnd(s, i)

\* end of (?:kentucky\s+)?(?:straight\s+)?(?:bourbon|...) at position i
KentuckyWordEnd(s, i) ==
  LET a == AfterWordAndSpaces(s, i, <<"k","e","n","t","u","c","k","y">>)
  IN  IF a > 0 /\ StraightWordEnd(s, a) > 0 THEN StraightWordEnd(s, a)
      ELSE StraightWordEnd(s, i)

\* first index >= i holding a line feed, Len(s) + 1 if none
LineEnd(s, i) ==
  CHOOSE j \in i..(Len(s) + 1) :
    /\ \A k \in i..(j - 1) : s[k] # "\n"
    /\ j = Len(s) + 1 \/ s[j] = "\n"

\* group 1 of ocrText.match(productTypePattern), trimmed; Null if no match
FindProductDescription(text) ==
  LET s == ToLowerCase(text)
      Starts == {g \in 1..Len(s) :
                   /\ g = 1 \/ IsSpace(s[g - 1])
                   /\ KentuckyWordEnd(s, g) > 0}
  IN  IF Starts = {} THEN Null
      ELSE LET g == CHOOSE x \in Starts : \A y \in Starts : x <= y
           IN  Some(Trim(SubSeq(text, g, LineEnd(s, KentuckyWordEnd(s, g)) - 1)))

\* match?.match || null
MatchOrNull(match) ==
  IF IsNull(match) \/ Val(match).match = <<>> THEN Null ELSE Some(Val(match).match)

\* match?.score
ScoreOrUndefined(match) == IF IsNull(match) THEN Undefined ELSE Some(Val(match).score)

TextVerifyProductType(expectedCategory, text) ==
  LET match == FindBestMatch(expectedCategory, text, FUZZY_MATCH_THRESHOLD)
      foundProduct == FindProductDescription(text)
      classification ==
        IF IsNull(foundProduct) \/ Val(foundProduct) = <<>> THEN NoClassification
        ELSE ClassifyProductType(Val(foundProduct))
      fallbackClassification == ClassifyProductType(text)
  IN  IF ~IsNull(match) /\ Val(match).score >= FUZZY_MATCH_THRESHOLD
      THEN FieldResult(TRUE, expectedCategory, Some(Val(match).match),
                       Some(Val(match).score), Undefined)
      ELSE IF ~IsNull(classification.category) /\ classification.confidence >= 70
      THEN IF CategoriesMatch(expectedCategory, Val(classification.category))
           THEN FieldResult(TRUE, expectedCategory,
                            Some(<<Val(foundProduct), Val(classification.category)>>),
                            Some(classification.confidence), Undefined)
           ELSE FieldResult(FALSE, expectedCategory,
                            Some(<<Val(foundProduct), Val(classification.category)>>),
                            Some(classification.confidence),
                            Some("Product type mismatch"))
      ELSE IF ~IsNull(fallbackClassification.category)
              /\ fallbackClassification.confidence >= 60
      THEN IF CategoriesMatch(expectedCategory, Val(fallbackClassification.category))
           THEN FieldResult(TRUE, expectedCategory,
                            Some(<<"Classified as", Val(fallbackClassification.category)>>),
                            Some(fallbackClassification.confidence), Undefined)
           ELSE FieldResult(FALSE, expectedCategory,
                            Some(<<"Classified as", Val(fallbackClassification.category)>>),
                            Some(fallbackClassification.confidence),
                            Some("Product type mismatch"))
      ELSE FieldResult(FALSE, expectedCategory, MatchOrNull(match), ScoreOrUndefined(match),
                       Some("Could not determine product type from label"))


(***************************************************************************)
(* lib/verification.ts: verifyBrandName, verifyAlcoholContent,              *)
(* verifyNetContents, verifyGovernmentWarning                               *)
(***************************************************************************)
TextVerifyBrandName(formValue, text) ==
  LET match == FindBestMatch(formValue, text, FUZZY_MATCH_THRESHOLD)
  IN  IF ~IsNull(match) /\ Val(match).score >= FUZZY_MATCH_THRESHOLD
      THEN FieldResult(TRUE, formValue, Some(Val(match).match), Some(Val(match).score),
                       Undefined)
      ELSE FieldResult(FALSE, formValue, MatchOrNull(match), ScoreOrUndefined(match),
                       IF ~IsNull(match) THEN Some("Brand name mismatch")
                       ELSE Some("Brand name not found on label"))

\* foundPercentages.find((p) => Math.abs(p - formValue) <= tolerance)
RECURSIVE FindWithinTolerance(_, _)
FindWithinTolerance(percentages, formValue) ==
  IF percentages = <<>> THEN Undefined
  ELSE IF WithinTolerance(Head(percentages), formValue) THEN Some(Head(percentages))
  ELSE FindWithinTolerance(Tail(percentages), formValue)

\* verifyAlcoholContent once findAlcoholContent has returned
AlcoholContentResult(formValue, foundPercentages) ==
  LET matchingPercentage == FindWithinTolerance(foundPercentages, formValue)
  IN  IF matchingPercentage # Undefined
      THEN FieldResult(TRUE, PercentString(formValue),
                       Some(PercentString(Val(matchingPercentage))), Some(100), Undefined)
      ELSE FieldResult(FALSE, PercentString(formValue),
                       IF Len(foundPercentages) > 0
                       THEN Some(PercentString(foundPercentages[1])) ELSE Null,
                       Undefined,
                       IF Len(foundPercentages) > 0 THEN Some("Alcohol content mismatch")
                       ELSE Some("Alcohol content not found on label"))

TextVerifyAlcoholContent(formValue, text) ==
  AlcoholContentResult(formValue, FindAlcoholContent(text))

\* the for loop of verifyNetContents: the first volume similar enough
RECURSIVE FirstSimilarVolume(_, _)
FirstSimilarVolume(normalizedFormValue, volumes) ==
  IF volumes = <<>> THEN Null
  ELSE IF FuzzyMatch(normalizedFormValue, NormalizeVolumeUnit(Head(volumes)))
            >= FUZZY_MATCH_THRESHOLD
  THEN Some(Head(volumes))
  ELSE FirstSimilarVolume(normalizedFormValue, Tail(volumes))

\* verifyNetContents once findNetContents has returned
NetContentsResult(formValue, foundVolumes) ==
  LET normalizedFormValue == NormalizeVolumeUnit(formValue)
      volume == FirstSimilarVolume(normalizedFormValue, foundVolumes)
  IN  IF ~IsNull(volume)
      THEN FieldResult(TRUE, formValue, volume,
                       Some(FuzzyMatch(normalizedFormValue, NormalizeVolumeUnit(Val(volume)))),
                       Undefined)
      ELSE FieldResult(FALSE, formValue,
                       IF Len(foundVolumes) > 0 THEN Some(foundVolumes[1]) ELSE Null,
                       IF Len(foundVolumes) > 0
                       THEN Some(FuzzyMatch(normalizedFormValue,
                                            NormalizeVolumeUnit(foundVolumes[1])))
                       ELSE Undefined,
                       IF Len(foundVolumes) > 0 THEN Some("Net contents mismatch")
                       ELSE Some("Net contents not found on label"))

TextVerifyNetContents(formValue, text) ==
  NetContentsResult(formValue, FindNetContents(text))

TextVerifyGovernmentWarning(text) ==
  IF FindGovernmentWarning(text)
  THEN FieldResult(TRUE, "GOVERNMENT WARNING present", Some("GOVERNMENT WARNING found"),
                   Some(100), Undefined)
  ELSE FieldResult(FALSE, "GOVERNMENT WARNING present", Null, Undefined,
                   Some("Government warning statement is missing from the label"))

(***************************************************************************)
(* lib/verification.ts: verifyLabel                                         *)
(***************************************************************************)
TextFields(form, text) ==
  [brandName |-> TextVerifyBrandName(form.brandName, text),
   productType |-> TextVerifyProductType(form.productType, text),
   alcoholContent |-> TextVerifyAlcoholContent(form.alcoholContent, text),
   netContents |-> TextVerifyNetContents(form.netContents, text),
   governmentWarning |-> TextVerifyGovernmentWarning(text)]

CriticalFields == {"brandName", "productType", "alcoholContent"}

\* [ ... found === null ... ].filter(Boolean).length
CriticalFieldsMissing(fieldResults) ==
  Cardinality({f \in CriticalFields : IsNull(fieldResults[f].found)})

RequiredFields == {"brandName", "productType", "alcoholContent", "netContents"}

\* a variant of TextSuccess that lets the government warning decide too
TextSuccessAllFields(fieldResults) ==
  \A f \in RequiredFields \cup {"governmentWarning"} : fieldResults[f].matched

TextSuccess(fieldResults) == \A f \in RequiredFields : fieldResults[f].matched

InsufficientLabelData ==
  "The uploaded image does not appear to contain the required label information"

\* a variant of TextOutcome that aborts only above two missing critical fields
TextOutcomeAbortAboveTwo(fieldResults) ==
  IF CriticalFieldsMissing(fieldResults) > 2
  THEN [kind |-> "throw", error |-> InsufficientLabelData]
  ELSE [kind |-> "result", success |-> TextSuccess(fieldResults), fields |-> fieldResults]

\* verifyLabel from the abort check on: throw, or return { success, fields }
TextOutcome(fieldResults) ==
  IF CriticalFieldsMissing(fieldResults) >= 2
  THEN [kind |-> "throw", error |-> InsufficientLabelData]
  ELSE [kind |-> "result", success |-> TextSuccess(fieldResults), fields |-> fieldResults]

VerifyLabel(form, text) == TextOutcome(TextFields(form, text))


(***************************************************************************)
(* Inputs: declared records, parsed vision responses and OCR texts          *)
(***************************************************************************)
OldTom == <<"O","l","d"," ","T","o","m">>
OldTomUpper == <<"O","L","D"," "," ","T","O","M"," ">>
OldTomBang == <<"O","l","d"," ","T","o","m","!">>
OldTam == <<"O","l","d"," ","T","a","m">>
Abc == <<"A","B","C">>
Bourbon == <<"B","o","u","r","b","o","n">>
RedWine == <<"R","e","d"," ","W","i","n","e">>
Vol750mL == <<"7","5","0"," ","m","L">>
Vol750ML == <<"7","5","0","M","L">>
Vol750mI == <<"7","5","0"," ","m","I">>
Vol1L == <<"1"," ","L">>
Abv45 == <<"4","5","%">>
WarningLine == <<"G","O","V","E","R","N","M","E","N","T"," ","W","A","R","N","I","N","G">>

\* the lines that are present, joined by line feeds
RECURSIVE JoinLines(_)
JoinLines(lines) ==
  IF lines = <<>> THEN <<>>
  ELSE LET rest == JoinLines(Tail(lines))
       IN  IF Head(lines) = <<>> THEN rest
           ELSE IF rest = <<>> THEN Head(lines)
           ELSE Head(lines) \o <<"\n">> \o rest

DeclaredBrands == {OldTom, Abc}
DeclaredCategories == {DistilledSpirits, Wine}
DeclaredAbvs == {450, 322}
DeclaredVolumes == {Vol750mL}

\* FormData of types/index.ts as the handler passes it on
Forms ==
  [brandName : DeclaredBrands, productType : DeclaredCategories,
   alcoholContent : DeclaredAbvs, netContents : DeclaredVolumes]

\* JSON.parse of the vision response: a field is null, or a string or number
Jsons ==
  [brandName : {Null, Some(<<>>), Some(OldTom), Some(OldTomUpper), Some(OldTomBang)},
   productType : {Null, Some(DistilledSpirits), Some(Bourbon), Some(RedWine)},
   alcoholContent : {Null, Some(0), Some(450), Some(455), Some(317)},
   netContents : {Null, Some(Vol750ML), Some(Vol750mI), Some(Vol1L)},
   hasGovernmentWarning : BOOLEAN]

\* JSON.parse of a vision response that does not keep to the requested
\* types: a string field may hold a number or a boolean, the number field a
\* string or a boolean (Boolean(x) of any value is a boolean, so the last
\* field is drawn as the boolean it becomes)
JsonsAnyType ==
  [brandName : {Null, Some(OldTom), Mistyped("number", 123), Mistyped("number", 0),
                Mistyped("boolean", TRUE)},
   productType : {Null, Some(Bourbon), Mistyped("number", 5), Mistyped("boolean", FALSE)},
   alcoholContent : {Null, Some(450), Mistyped("string", <<"4","5">>),
                     Mistyped("string", Abc), Mistyped("boolean", TRUE)},
   netContents : {Null, Some(Vol750ML), Mistyped("number", 750)},
   hasGovernmentWarning : BOOLEAN]

\* the wine label of the end-to-end scenarios
XyzWinery == <<"X","Y","Z"," ","W","i","n","e","r","y">>
AbcWinery == <<"A","B","C"," ","W","i","n","e","r","y">>
RedTableWine == <<"R","e","d"," ","T","a","b","l","e"," ","W","i","n","e">>
Abv125 == <<"1","2",".","5","%">>

ScenarioForms ==
  [brandName : {XyzWinery}, productType : {Wine},
   alcoholContent : {125}, netContents : {Vol750mL}]

ScenarioJsons ==
  [brandName : {Some(XyzWinery), Some(AbcWinery)},
   productType : {Some(RedTableWine), Some(Bourbon)},
   alcoholContent : {Some(125), Some(140)},
   netContents : {Some(Vol750ML), Some(Vol1L)},
   hasGovernmentWarning : BOOLEAN]

ScenarioTexts ==
  {JoinLines(<<b, p, a, t>>) :
     b \in {XyzWinery, AbcWinery}, p \in {<<>>, RedTableWine},
     a \in {<<>>, Abv125}, t \in {<<>>, Vol750mL}}

\* OCR output: up to four lines, each of them possibly missing; the handler
\* rejects a text without any character before verifyLabel is called
Texts ==
  {JoinLines(<<b, p, a, t>>) :
     b \in {<<>>, OldTom, OldTam}, p \in {<<>>, Bourbon, RedWine},
     a \in {<<>>, Abv45}, t \in {<<>>, Vol750ML, WarningLine}} \ {<<>>}

NoResult == [kind |-> "none"]

\* the verification entered directly, without the handler around it
NoRequest == request = Null /\ response = Null /\ tempFiles = {} /\ trace = <<>>

\* no concurrent verifyLabel calls
NoCalls == calls = <<>> /\ lastIndex = <<>>

\* no call of a single library function
NoLibraryCall == args = Null /\ returned = Null

\* no form in a browser
NoForm == verificationForm = Null /\ inFlight = <<>>

InitVision ==
  /\ pc = "vision"
  /\ usedMethod = "vision"
  /\ formData \in Forms
  /\ rawJson \in Jsons
  /\ extractedData = Null
  /\ ocrText = <<>>
  /\ fields = Null
  /\ result = NoResult
  /\ NoRequest
  /\ NoCalls
  /\ NoLibraryCall
  /\ NoForm

InitText ==
  /\ pc = "ocr"
  /\ usedMethod = "ocr"
  /\ formData \in Forms
  /\ rawJson = Null
  /\ extractedData = Null
  /\ ocrText \in Texts
  /\ fields = Null
  /\ result = NoResult
  /\ NoRequest
  /\ NoCalls
  /\ NoLibraryCall
  /\ NoForm

Init == InitText \/ InitVision

(***************************************************************************)
(* Actions                                                                  *)
(***************************************************************************)
\* verifyLabelWithVision up to its await: the extraction returns the record
ExtractLabelDataWithVision ==
  /\ pc = "vision"
  /\ extractedData' = ExtractedRecord(rawJson)
  /\ pc' = "extracted"
  /\ trace' = Append(trace, "extractLabelDataWithVision returned")
  /\ UNCHANGED <<usedMethod, formData, rawJson, ocrText, fields, result>>
  /\ UNCHANGED <<handlerVars, callVars, libVars, formVars>>

\* verifyLabelWithVision after the await: the five verifiers and the outcome
VerifyWithVision ==
  /\ pc = "extracted"
  /\ fields' = IF VisionThrows(VisionFields(formData, extractedData)) THEN Null
               ELSE VisionFields(formData, extractedData)
  /\ result' = VerifyLabelWithVision(formData, extractedData)
  /\ pc' = "done"
  /\ trace' = Append(trace, IF result'.kind = "throw" THEN "verifyLabelWithVision threw"
                            ELSE "verifyLabelWithVision returned")
  /\ UNCHANGED <<usedMethod, formData, rawJson, extractedData, ocrText>>
  /\ UNCHANGED <<handlerVars, callVars, libVars, formVars>>

\* verifyLabel on the OCR text
VerifyWithOcr ==
  /\ pc = "ocr"
  /\ fields' = TextFields(formData, ocrText)
  /\ result' = TextOutcome(fields')
  /\ pc' = "done"
  /\ trace' = Append(trace, IF result'.kind = "throw" THEN "verifyLabel threw"
                            ELSE "verifyLabel returned")
  /\ UNCHANGED <<usedMethod, formData, rawJson, extractedData, ocrText>>
  /\ UNCHANGED <<handlerVars, callVars, libVars, formVars>>

Next == ExtractLabelDataWithVision \/ VerifyWithVision \/ VerifyWithOcr

Spec == Init /\ [][Next]_vars

\* the vision path alone
NextVision == ExtractLabelDataWithVision \/ VerifyWithVision

SpecVision == InitVision /\ [][NextVision]_vars

\* the text path alone
NextText == VerifyWithOcr

SpecText == InitText /\ [][NextText]_vars

\* the vision path over a range of declared and extracted ABV values, in
\* tenths of a percentage point
MaxAbvTenths == 30

InitAbv ==
  /\ pc = "vision"
  /\ usedMethod = "vision"
  /\ formData \in [brandName : {OldTom}, productType : {DistilledSpirits},
                    alcoholContent : 0..MaxAbvTenths, netContents : {Vol750mL}]
  /\ rawJson \in [brandName : {Some(OldTom)}, productType : {Some(Bourbon)},
                   alcoholContent : {Null} \cup {Some(e) : e \in 0..MaxAbvTenths},
                   netContents : {Some(Vol750ML)}, hasGovernmentWarning : {TRUE}]
  /\ extractedData = Null
  /\ ocrText = <<>>
  /\ fields = Null
  /\ result = NoResult
  /\ NoRequest
  /\ NoCalls
  /\ NoLibraryCall
  /\ NoForm

NextAbv == ExtractLabelDataWithVision \/ VerifyWithVision

SpecAbv == InitAbv /\ [][NextAbv]_vars

\* the vision path over responses of any JSON type
InitJson ==
  /\ pc = "vision"
  /\ usedMethod = "vision"
  /\ formData \in [brandName : {OldTom}, productType : {DistilledSpirits},
                    alcoholContent : {450}, netContents : {Vol750mL}]
  /\ rawJson \in JsonsAnyType
  /\ extractedData = Null
  /\ ocrText = <<>>
  /\ fields = Null
  /\ result = NoResult
  /\ NoRequest
  /\ NoCalls
  /\ NoLibraryCall
  /\ NoForm

NextJson == ExtractLabelDataWithVision \/ VerifyWithVision

SpecJson == InitJson /\ [][NextJson]_vars

\* both paths over the labels of the end-to-end scenarios
InitScenario ==
  /\ formData \in ScenarioForms
  /\ extractedData = Null
  /\ fields = Null
  /\ result = NoResult
  /\ NoRequest
  /\ NoCalls
  /\ NoLibraryCall
  /\ NoForm
  /\ \/ /\ pc = "ocr"
        /\ usedMethod = "ocr"
        /\ rawJson = Null
        /\ ocrText \in ScenarioTexts
     \/ /\ pc = "vision"
        /\ usedMethod = "vision"
        /\ rawJson \in ScenarioJsons
        /\ ocrText = <<>>

NextScenario == ExtractLabelDataWithVision \/ VerifyWithVision \/ VerifyWithOcr

SpecScenario == InitScenario /\ [][NextScenario]_vars

(***************************************************************************)
(* Concurrent verifyLabel calls.  Each call runs the five verifiers in      *)
(* order; findAlcoholContent and findNetContents advance the cursor of a    *)
(* global regular expression one match at a time.  Steps of different calls *)
(* interleave freely.                                                       *)
(***************************************************************************)
NumCalls == 2
CallIds == 1..NumCalls
Patterns == {"percentFirst", "percentSecond", "volumes"}

CallTexts ==
  {<<"A","B","C"," ","5","%"," ","1","L">>,
   <<"2","m","l"," ","4","%"," ","5","%"," ","A","B","C">>}

CallForms ==
  [brandName : {Abc}, productType : {Wine}, alcoholContent : {50},
   netContents : {Vol1L}]

\* a regular expression variant that lets every call use the objects of
\* the first call, as expressions created once for the module would be
RegexOfModule(c, pattern) == <<1, pattern>>

\* the regular expression object a call scans with: the patterns are
\* literals inside findAlcoholContent and findNetContents, so every call
\* creates its own
RegexOf(c, pattern) == <<c, pattern>>

\* the least element of a non-empty set of positions, 0 for the empty set
FirstOf(positions) ==
  IF positions = {} THEN 0 ELSE CHOOSE j \in positions : \A k \in positions : j <= k

\* where /(\d+\.?\d*)\s*%\s*(ABV|alc\.?\/vol\.?|alcohol)?/gi next matches at or
\* after i, 0 if nowhere
PercentFirstFrom(s, i) ==
  FirstOf({j \in i..Len(s) : IsDigit(s[j]) /\ PercentAt(s, j) > 0})

\* the digit that begins the number of a match of
\* /(ABV|alc\.?\/vol\.?|alcohol)?\s*(\d+\.?\d*)\s*%/gi started at j
SecondNumberAt(s, j) == SkipSpaces(s, j + AbvWordLenAt(s, j))

PercentSecondFrom(s, i) ==
  FirstOf({j \in i..Len(s) :
             LET q == SecondNumberAt(s, j)
             IN  q <= Len(s) /\ IsDigit(s[q]) /\ PercentAt(s, q) > 0})

\* where the unit of a volume begun at the digit at j starts
VolumeUnitAt(s, j) == SkipSpaces(s, NumberEnd(s, j))

VolumeFrom(s, i) ==
  FirstOf({j \in i..Len(s) : IsDigit(s[j]) /\ VolumeUnitLenAt(s, VolumeUnitAt(s, j)) > 0})

NoFields == [f \in FieldNames |-> Null]

\* the verifiers that scan with no regular expression object of their own
\* are functions of their arguments: their results for the inputs of the
\* calls, computed once
PureFieldResults ==
  {[form |-> form, text |-> text,
    brandName |-> TextVerifyBrandName(form.brandName, text),
    productType |-> TextVerifyProductType(form.productType, text),
    governmentWarning |-> TextVerifyGovernmentWarning(text)] :
     form \in CallForms, text \in CallTexts}

PureFieldResult(call, field) ==
  (CHOOSE r \in PureFieldResults : r.form = call.form /\ r.text = call.text)[field]

NewCall(form, text) ==
  [form |-> form, text |-> text, at |-> "brandName", percentages |-> <<>>,
   volumes |-> <<>>, fields |-> NoFields, result |-> NoResult]

InitCalls ==
  /\ pc = "calls"
  /\ usedMethod = "ocr"
  /\ formData = Null
  /\ rawJson = Null
  /\ extractedData = Null
  /\ ocrText = <<>>
  /\ fields = Null
  /\ result = NoResult
  /\ NoRequest
  /\ calls \in [CallIds -> {NewCall(f, t) : f \in CallForms, t \in CallTexts}]
  /\ lastIndex = [o \in CallIds \X Patterns |-> 1]
  /\ NoLibraryCall
  /\ NoForm

\* fields.brandName of verifyLabel
CallVerifyBrandName(c) ==
  /\ calls[c].at = "brandName"
  /\ calls' = [calls EXCEPT ![c].at = "productType",
                ![c].fields.brandName = PureFieldResult(calls[c], "brandName")]
  /\ UNCHANGED <<coreVars, handlerVars, trace, lastIndex, libVars, formVars>>

\* fields.productType of verifyLabel, then the entry of findAlcoholContent,
\* which creates its two patterns
CallVerifyProductType(c) ==
  /\ calls[c].at = "productType"
  /\ calls' = [calls EXCEPT ![c].at = "percentFirst",
                ![c].fields.productType = PureFieldResult(calls[c], "productType")]
  /\ lastIndex' = [lastIndex EXCEPT ![RegexOf(c, "percentFirst")] = 1,
                                    ![RegexOf(c, "percentSecond")] = 1]
  /\ UNCHANGED <<coreVars, handlerVars, trace, libVars, formVars>>

\* one iteration over the matches of the first pattern
CallScanPercentFirst(c) ==
  /\ calls[c].at = "percentFirst"
  /\ LET s == ToLowerCase(calls[c].text)
         j == PercentFirstFrom(s, lastIndex[RegexOf(c, "percentFirst")])
         w == SkipSpaces(s, PercentAt(s, j) + 1)
     IN  IF j = 0
         THEN /\ calls' = [calls EXCEPT ![c].at = "percentSecond"]
              /\ UNCHANGED lastIndex
         ELSE /\ calls' = [calls EXCEPT ![c].percentages = PushPercent(@, s, j)]
              /\ lastIndex' = [lastIndex EXCEPT
                                 ![RegexOf(c, "percentFirst")] = w + AbvWordLenAt(s, w)]
  /\ UNCHANGED <<coreVars, handlerVars, trace, libVars, formVars>>

\* one iteration over the matches of the second pattern; after the last
\* one findAlcoholContent returns, fields.alcoholContent is set and
\* findNetContents creates its pattern
CallScanPercentSecond(c) ==
  /\ calls[c].at = "percentSecond"
  /\ LET s == ToLowerCase(calls[c].text)
         j == PercentSecondFrom(s, lastIndex[RegexOf(c, "percentSecond")])
         q == SecondNumberAt(s, j)
     IN  IF j = 0
         THEN /\ calls' = [calls EXCEPT ![c].at = "volumes",
                             ![c].fields.alcoholContent =
                               AlcoholContentResult(calls[c].form.alcoholContent,
                                                    Dedupe(calls[c].percentages, <<>>))]
              /\ lastIndex' = [lastIndex EXCEPT ![RegexOf(c, "volumes")] = 1]
         ELSE /\ calls' = [calls EXCEPT ![c].percentages =
                              IF AbvWordLenAt(s, j) > 0 THEN @ ELSE PushPercent(@, s, q)]
              /\ lastIndex' = [lastIndex EXCEPT
                                 ![RegexOf(c, "percentSecond")] = PercentAt(s, q) + 1]
  /\ UNCHANGED <<coreVars, handlerVars, trace, libVars, formVars>>

\* one iteration over the matches of the volume pattern; after the last
\* one findNetContents returns and fields.netContents is set
CallScanVolumes(c) ==
  /\ calls[c].at = "volumes"
  /\ LET text == calls[c].text
         s == ToLowerCase(text)
         j == VolumeFrom(s, lastIndex[RegexOf(c, "volumes")])
         k == VolumeUnitAt(s, j)
         u == VolumeUnitLenAt(s, k)
     IN  IF j = 0
         THEN /\ calls' = [calls EXCEPT ![c].at = "governmentWarning",
                             ![c].fields.netContents =
                               NetContentsResult(calls[c].form.netContents, calls[c].volumes)]
              /\ UNCHANGED lastIndex
         ELSE /\ calls' = [calls EXCEPT ![c].volumes =
                              Append(@, Trim(SubSeq(text, j, k + u - 1)))]
              /\ lastIndex' = [lastIndex EXCEPT ![RegexOf(c, "volumes")] = k + u]
  /\ UNCHANGED <<coreVars, handlerVars, trace, libVars, formVars>>

\* fields.governmentWarning of verifyLabel
CallVerifyGovernmentWarning(c) ==
  /\ calls[c].at = "governmentWarning"
  /\ calls' = [calls EXCEPT ![c].at = "return",
                ![c].fields.governmentWarning = TextVerifyGovernmentWarning(calls[c].text)]
  /\ UNCHANGED <<coreVars, handlerVars, trace, lastIndex, libVars, formVars>>

\* the abort check and the return of verifyLabel
CallReturn(c) ==
  /\ calls[c].at = "return"
  /\ calls' = [calls EXCEPT ![c].at = "returned",
                             ![c].result = TextOutcome(calls[c].fields)]
  /\ UNCHANGED <<coreVars, handlerVars, trace, lastIndex, libVars, formVars>>

NextCalls ==
  \E c \in CallIds :
    \/ CallVerifyBrandName(c)
    \/ CallVerifyProductType(c)
    \/ CallScanPercentFirst(c)
    \/ CallScanPercentSecond(c)
    \/ CallScanVolumes(c)
    \/ CallVerifyGovernmentWarning(c)
    \/ CallReturn(c)

SpecCalls == InitCalls /\ [][NextCalls]_vars

(***************************************************************************)
(* pages/api/verify.ts: the handler of POST /api/verify around the          *)
(* verification: validation, the vision attempt, the OCR fallback and the   *)
(* response                                                                 *)
(***************************************************************************)
Jpeg == "image/jpeg"
Jpg == "image/jpg"
Png == "image/png"
Webp == "image/webp"
Gif == "image/gif"

\* const validTypes
ValidTypes == {Jpeg, Jpg, Png, Webp}

\* files.images as mimetypes: no file, one file or several
ImageLists ==
  {<<>>, <<Jpeg>>, <<Jpg>>, <<Png, Webp>>, <<Gif>>, <<Jpeg, Gif>>, <<Jpeg, Png, Webp>>}

\* a request: its method, whether formidable can parse its body (a file
\* above maxFileSize or a malformed body makes form.parse fail), its four
\* form fields and its images
Requests ==
  [method : {"POST", "GET"}, parses : BOOLEAN,
   brandName : {<<>>, OldTom}, productType : {<<>>, DistilledSpirits},
   alcoholContent : {<<>>, <<"4","5">>, <<"1","5","0">>, Abc, <<"1","2","a","b","c">>},
   netContents : {<<>>, Vol750mL},
   images : ImageLists]

\* parseFloat(alcoholContentStr), in tenths: the value of the longest
\* numeral the string begins with, NaN if it begins with none
HandlerParseFloat(str) ==
  IF str # <<>> /\ IsDigit(str[1])
  THEN Some(ParseFloat(SubSeq(str, 1, NumberEnd(str, 1) - 1)))
  ELSE NaN

Accepted == [status |-> 0, error |-> "none"]

\* the checks of the handler before the verification, in their order: the
\* error response of the first one that fails, Accepted if none does
Rejection(req) ==
  IF req.method # "POST" THEN [status |-> 405, error |-> "Method not allowed"]
  ELSE IF ~req.parses THEN [status |-> 500, error |-> "form.parse error"]
  ELSE IF req.brandName = <<>> \/ req.productType = <<>> \/ req.alcoholContent = <<>>
            \/ req.netContents = <<>>
  THEN [status |-> 400, error |-> "Missing required fields"]
  ELSE IF HandlerParseFloat(req.alcoholContent) = NaN
  THEN [status |-> 400, error |-> "Invalid alcohol content value"]
  ELSE IF req.images = <<>>
  THEN [status |-> 400, error |-> "No image files uploaded"]
  ELSE IF Len(req.images) > 2
  THEN [status |-> 400, error |-> "Maximum 2 images allowed"]
  ELSE IF \E i \in 1..Len(req.images) : req.images[i] \notin ValidTypes
  THEN [status |-> 400,
        error |-> "Invalid file type. All images must be JPEG, PNG, or WebP."]
  ELSE Accepted

\* res.status(status).json({ success: false, fields: {}, error })
ErrorResponse(status, error) ==
  [status |-> status, success |-> FALSE, fields |-> <<>>, method |-> "none",
   error |-> error]

\* res.status(200).json({ success, fields, method, imageCount })
OkResponse(verificationResult, method) ==
  [status |-> 200, success |-> verificationResult.success,
   fields |-> verificationResult.fields, method |-> method, error |-> "none"]

ProcessingFailed == "Failed to process label images. Please try again with clearer images."

\* what the vision model reads from the images of the request
HandlerJsons ==
  {[brandName |-> Some(OldTom), productType |-> Some(DistilledSpirits),
    alcoholContent |-> Some(450), netContents |-> Some(Vol750ML),
    hasGovernmentWarning |-> TRUE],
   [brandName |-> Some(OldTom), productType |-> Some(Bourbon),
    alcoholContent |-> Some(450), netContents |-> Mistyped("number", 750),
    hasGovernmentWarning |-> TRUE]}

\* what OCR reads from the images of the request
HandlerTexts ==
  {JoinLines(<<OldTom, Bourbon, Abv45, Vol750ML>>), OldTom, <<>>, <<" ", "\n">>}

InitHandler ==
  /\ pc = "request"
  /\ usedMethod = "vision"
  /\ formData = Null
  /\ rawJson \in HandlerJsons
  /\ extractedData = Null
  /\ ocrText = <<>>
  /\ fields = Null
  /\ result = NoResult
  /\ request \in Requests
  /\ response = Null
  /\ tempFiles = {}
  /\ trace = <<>>
  /\ NoCalls
  /\ NoLibraryCall
  /\ NoForm

\* the files formidable has written to the upload directory when form.parse
\* calls back, as indices into the images: every file of a body it parsed,
\* any of them if it gave up on the body, none if the body was never read
UploadedFiles(req) ==
  IF req.method # "POST" THEN {{}}
  ELSE IF req.parses THEN {1..Len(req.images)}
  ELSE SUBSET (1..Len(req.images))

\* the handler from its entry to the vision attempt: an error response, or
\* the declared record handed to verifyLabelWithVision
ValidateRequest ==
  /\ pc = "request"
  /\ tempFiles' \in UploadedFiles(request)
  /\ IF Rejection(request).status # 0
     THEN /\ response' = ErrorResponse(Rejection(request).status, Rejection(request).error)
          /\ pc' = "responded"
          /\ UNCHANGED formData
     ELSE /\ formData' = [brandName |-> request.brandName,
                          productType |-> request.productType,
                          alcoholContent |-> Val(HandlerParseFloat(request.alcoholContent)),
                          netContents |-> request.netContents]
          /\ pc' = "vision"
          /\ UNCHANGED response
  /\ UNCHANGED <<usedMethod, rawJson, extractedData, ocrText, fields, result, request, trace>>
  /\ UNCHANGED <<callVars, libVars, formVars>>

\* extractLabelDataWithVision throws: the API key is not set, the API call
\* fails or the response holds no JSON that parses
VisionFails ==
  /\ pc = "vision"
  /\ result' = [kind |-> "throw", error |-> "Failed to parse vision API response"]
  /\ pc' = "done"
  /\ trace' = Append(trace, "verifyLabelWithVision threw")
  /\ UNCHANGED <<usedMethod, formData, rawJson, extractedData, ocrText, fields>>
  /\ UNCHANGED <<handlerVars, callVars, libVars, formVars>>

\* a variant of the fallback that starts OCR whatever the vision attempt gave
FallBackToOcrAlways ==
  /\ pc = "done"
  /\ usedMethod = "vision"
  /\ usedMethod' = "ocr"
  /\ pc' = "ocrExtract"
  /\ trace' = Append(trace, "extractTextFromImage called")
  /\ UNCHANGED <<formData, rawJson, extractedData, ocrText, fields, result>>
  /\ UNCHANGED <<handlerVars, callVars, libVars, formVars>>

\* catch (visionError): usedMethod = 'ocr' and the OCR of the images begins
FallBackToOcr ==
  /\ pc = "done"
  /\ usedMethod = "vision"
  /\ result.kind = "throw"
  /\ usedMethod' = "ocr"
  /\ pc' = "ocrExtract"
  /\ trace' = Append(trace, "extractTextFromImage called")
  /\ UNCHANGED <<formData, rawJson, extractedData, ocrText, fields, result>>
  /\ UNCHANGED <<handlerVars, callVars, libVars, formVars>>

\* extractTextFromImage / extractTextFromMultipleImages throws
ExtractTextFails ==
  /\ pc = "ocrExtract"
  /\ result' = [kind |-> "throw",
                error |-> "Failed to extract text from image. Please try a clearer image."]
  /\ pc' = "done"
  /\ trace' = Append(trace, "extractTextFromImage threw")
  /\ UNCHANGED <<usedMethod, formData, rawJson, extractedData, ocrText, fields>>
  /\ UNCHANGED <<handlerVars, callVars, libVars, formVars>>

\* the OCR returns a text; a text without any character besides whitespace
\* is turned into an error
ExtractTextFromImage ==
  /\ pc = "ocrExtract"
  /\ \E text \in HandlerTexts :
       /\ ocrText' = text
       /\ IF Trim(text) = <<>>
          THEN /\ result' = [kind |-> "throw",
                             error |-> "Could not read text from the label images"]
               /\ pc' = "done"
               /\ trace' = Append(trace, "no text read")
          ELSE /\ pc' = "ocr"
               /\ trace' = Append(trace, "extractTextFromImage returned")
               /\ UNCHANGED result
  /\ UNCHANGED <<usedMethod, formData, rawJson, extractedData, fields>>
  /\ UNCHANGED <<handlerVars, callVars, libVars, formVars>>

\* the verification returned: files cleaned up, 200 with the method used
RespondOk ==
  /\ pc = "done"
  /\ result.kind = "result"
  /\ tempFiles' = {}
  /\ response' = OkResponse(result, usedMethod)
  /\ pc' = "responded"
  /\ UNCHANGED <<usedMethod, formData, rawJson, extractedData, ocrText, fields, result,
                 request, trace>>
  /\ UNCHANGED <<callVars, libVars, formVars>>

\* catch (ocrError) rethrows and the outer catch answers 500
RespondError ==
  /\ pc = "done"
  /\ usedMethod = "ocr"
  /\ result.kind = "throw"
  /\ response' = ErrorResponse(500, ProcessingFailed)
  /\ pc' = "responded"
  /\ UNCHANGED <<usedMethod, formData, rawJson, extractedData, ocrText, fields, result,
                 request, tempFiles, trace>>
  /\ UNCHANGED <<callVars, libVars, formVars>>

NextHandler ==
  \/ ValidateRequest
  \/ ExtractLabelDataWithVision
  \/ VisionFails
  \/ VerifyWithVision
  \/ FallBackToOcr
  \/ ExtractTextFails
  \/ ExtractTextFromImage
  \/ VerifyWithOcr
  \/ RespondOk
  \/ RespondError

SpecHandler == InitHandler /\ [][NextHandler]_vars

(***************************************************************************)
(* Calls of single functions of lib/textMatching.ts and of the classifier,  *)
(* over all strings up to a length                                          *)
(***************************************************************************)
MaxTextLen == 3

\* the strings over an alphabet up to a length
Strings(alphabet, maxLen) ==
  UNION {{f \o <<>> : f \in [1..n -> alphabet]} : n \in 0..maxLen}

\* a lower-case and an upper-case letter, a space, a character that
\* normalizeText strips and one that it keeps
TextAlphabet == {"a", "B", " ", "!", "%"}

\* the state before the call of a library function with one of the inputs
InitLibrary(inputs) ==
  /\ pc = "call"
  /\ usedMethod = "none"
  /\ formData = Null
  /\ rawJson = Null
  /\ extractedData = Null
  /\ ocrText = <<>>
  /\ fields = Null
  /\ result = NoResult
  /\ NoRequest
  /\ NoCalls
  /\ args \in inputs
  /\ returned = Null
  /\ NoForm

\* what a library call leaves alone
notLibraryVars ==
  <<usedMethod, formData, rawJson, extractedData, ocrText, fields, result,
    request, response, tempFiles, trace, calls, lastIndex, args,
    verificationForm, inFlight>>

InitNormalizeText == InitLibrary(Strings(TextAlphabet, MaxTextLen))

\* normalizeText(text)
CallNormalizeText ==
  /\ pc = "call"
  /\ returned' = Some(NormalizeText(args))
  /\ pc' = "returned"
  /\ UNCHANGED notLibraryVars

SpecNormalizeText == InitNormalizeText /\ [][CallNormalizeText]_vars

\* pairs of a string and a respelling of it
InitFuzzyMatch ==
  InitLibrary(UNION {{<<a, a>>, <<a, a \o <<" ">>>>, <<a, <<" ", " ">> \o a>>,
                      <<a, ToLowerCase(a)>>, <<a, a \o <<"a">>>>} :
                       a \in Strings(TextAlphabet, MaxTextLen)})

\* fuzzyMatch(str1, str2)
CallFuzzyMatch ==
  /\ pc = "call"
  /\ returned' = Some(FuzzyMatch(args[1], args[2]))
  /\ pc' = "returned"
  /\ UNCHANGED notLibraryVars

SpecFuzzyMatch == InitFuzzyMatch /\ [][CallFuzzyMatch]_vars

MaxHaystackLen == 5

\* a text of eleven words, one more than the largest window
ElevenWords ==
  <<"a"," ","b"," ","a"," ","b"," ","a"," ","b"," ","a"," ","b"," ","a"," ","b"," ","a">>

\* search terms, texts and thresholds
InitFindBestMatch ==
  InitLibrary([term : {<<"a","b">>, <<"a"," ","b">>},
               text : Strings({"a", "b", " "}, MaxHaystackLen),
               threshold : {50, FUZZY_MATCH_THRESHOLD}]
              \cup [term : {ElevenWords, <<"b">>}, text : {ElevenWords},
                    threshold : {FUZZY_MATCH_THRESHOLD}])

\* findBestMatch(searchTerm, ocrText, threshold)
CallFindBestMatch ==
  /\ pc = "call"
  /\ returned' = Some(FindBestMatch(args.term, args.text, args.threshold))
  /\ pc' = "returned"
  /\ UNCHANGED notLibraryVars

SpecFindBestMatch == InitFindBestMatch /\ [][CallFindBestMatch]_vars

MaxDescriptionWords == 2

DescriptionWords ==
  {<<"R","e","d">>, <<"w","i","n","e">>, <<"g","i","n">>, <<"v","i","r","g","i","n","i","a">>,
   <<"p","a","l","e">>, <<"a","l","e">>, Bourbon, <<"t","o","n","i","c">>,
   <<"D","i","s","t","i","l","l","e","d">>, <<"S","p","i","r","i","t","s">>}

\* product descriptions of up to MaxDescriptionWords words, and a blank one
Descriptions ==
  UNION {{JoinWords(f, 1, n) : f \in [1..n -> DescriptionWords]} :
           n \in 0..MaxDescriptionWords}
  \cup {<<" ", " ">>}

InitClassify == InitLibrary(Descriptions)

\* classifyProductType(productText)
CallClassifyProductType ==
  /\ pc = "call"
  /\ returned' = Some(ClassifyProductType(args))
  /\ pc' = "returned"
  /\ UNCHANGED notLibraryVars

SpecClassify == InitClassify /\ [][CallClassifyProductType]_vars

\* the spellings of each unit family
UnitFamilies ==
  {{<<"m","l">>, <<"m","L">>, <<"M","L">>, <<"m","i","l","l","i","l","i","t","e","r">>,
    <<"m","i","l","l","i","l","i","t","e","r","s">>},
   {<<"l">>, <<"L">>, <<"l","i","t","e","r">>, <<"l","i","t","e","r","s">>,
    <<"l","i","t","r","e">>, <<"l","i","t","r","e","s">>},
   {<<"f","l"," ","o","z">>, <<"f","l","."," ","o","z">>},
   {<<"o","z">>, <<"o","u","n","c","e">>, <<"o","u","n","c","e","s">>},
   {<<"g","a","l">>, <<"g","a","l","l","o","n">>}}

VolumeNumbers == {<<"1">>, <<"7","5","0">>}

\* a declared and an extracted volume of the same number whose units are
\* spellings of one family
VolumePairs ==
  UNION {{[declared |-> n \o <<" ">> \o u, extracted |-> n \o <<" ">> \o v] :
            <<n, u, v>> \in VolumeNumbers \X family \X family} :
           family \in UnitFamilies}

InitVolume == InitLibrary(VolumePairs)

\* verifyNetContents(formValue, ocrText) on a text that holds the volume
CallVerifyNetContents ==
  /\ pc = "call"
  /\ returned' = Some([path |-> "ocr",
                       result |-> TextVerifyNetContents(args.declared, args.extracted)])
  /\ pc' = "returned"
  /\ UNCHANGED notLibraryVars

\* verifyNetContentsField(expected, found)
CallVerifyNetContentsField ==
  /\ pc = "call"
  /\ returned' = Some([path |-> "vision",
                       result |-> VerifyNetContentsField(args.declared,
                                                         Some(args.extracted))])
  /\ pc' = "returned"
  /\ UNCHANGED notLibraryVars

NextVolume == CallVerifyNetContents \/ CallVerifyNetContentsField

SpecVolume == InitVolume /\ [][NextVolume]_vars


MaxCandidates == 2

\* percentages printed on a label, in tenths
LabelPercentages == {1, 6, 11, 16, 450, 455}

\* a text of percentages: '0.6% 45%'
RECURSIVE PercentagesText(_)
PercentagesText(list) ==
  IF list = <<>> THEN <<>>
  ELSE IF Len(list) = 1 THEN PercentString(list[1])
  ELSE PercentString(list[1]) \o <<" ">> \o PercentagesText(Tail(list))

\* declared values and texts of up to MaxCandidates percentages
InitAlcoholContent ==
  InitLibrary([formValue : {6, 11, 450},
               text : UNION {{PercentagesText(f \o <<>>) : f \in [1..n -> LabelPercentages]} :
                               n \in 0..MaxCandidates}])

\* verifyAlcoholContent(formValue, ocrText)
CallVerifyAlcoholContent ==
  /\ pc = "call"
  /\ returned' = Some(TextVerifyAlcoholContent(args.formValue, args.text))
  /\ pc' = "returned"
  /\ UNCHANGED notLibraryVars

SpecAlcoholContent == InitAlcoholContent /\ [][CallVerifyAlcoholContent]_vars


\* volumes printed on a label
LabelVolumes ==
  {<<"7","5","0"," ","m","l">>, <<"7","6","0"," ","m","l">>, <<"5","0","0"," ","m","l">>,
   <<"7","5","0"," ","m","L">>, <<"1"," ","L">>}

\* declared volumes and texts of up to MaxCandidates volumes
InitNetContents ==
  InitLibrary([declared : {<<"7","5","0"," ","m","l">>, <<"1"," ","L">>},
               extracted : UNION {{JoinWords(f \o <<>>, 1, n) : f \in [1..n -> LabelVolumes]} :
                                    n \in 0..MaxCandidates}])

SpecNetContents == InitNetContents /\ [][CallVerifyNetContents]_vars


(***************************************************************************)
(* lib/ocr.ts: extractTextFromMultipleImages                                *)
(***************************************************************************)
MaxImages == 3

\* what extractTextFromImage does with one image: it throws, or it returns
\* a text and a confidence (an image without text is read as '' with
\* confidence 0)
OcrFailure == [kind |-> "throw"]
OcrSuccess(text, confidence) == [kind |-> "result", text |-> text, confidence |-> confidence]

OcrOutcomes ==
  {OcrFailure, OcrSuccess(<<"a">>, 90), OcrSuccess(<<"b">>, 50), OcrSuccess(<<" ">>, 30),
   OcrSuccess(<<>>, 0)}

\* '\n\n--- IMAGE SEPARATOR ---\n\n'
ImageSeparator ==
  <<"\n","\n","-","-","-"," ","I","M","A","G","E"," ","S","E","P","A","R","A","T","O","R",
    " ","-","-","-","\n","\n">>

\* the for loop: one entry per image, '' and 0 for an image whose OCR threw
OcrResults(imageBuffers) ==
  [i \in 1..Len(imageBuffers) |->
     IF imageBuffers[i].kind = "throw"
     THEN [text |-> <<>>, confidence |-> 0, imageIndex |-> i - 1]
     ELSE [text |-> imageBuffers[i].text, confidence |-> imageBuffers[i].confidence,
           imageIndex |-> i - 1]] \o <<>>

\* list.join(separator)
RECURSIVE JoinWith(_, _)
JoinWith(list, separator) ==
  IF list = <<>> THEN <<>>
  ELSE IF Len(list) = 1 THEN list[1]
  ELSE list[1] \o separator \o JoinWith(Tail(list), separator)

\* list.reduce((sum, r) => sum + r.confidence, 0)
RECURSIVE SumConfidence(_)
SumConfidence(list) ==
  IF list = <<>> THEN 0 ELSE list[1].confidence + SumConfidence(Tail(list))

\* the quotient a / b as the fraction it is
Quotient(a, b) == [numerator |-> a, denominator |-> b]

ExtractTextFromMultipleImages(imageBuffers) ==
  LET results == OcrResults(imageBuffers)
      nonBlank == SelectSeq(results, LAMBDA r : Len(Trim(r.text)) > 0)
      combinedText == JoinWith([k \in 1..Len(nonBlank) |-> nonBlank[k].text] \o <<>>,
                               ImageSeparator)
      validResults == SelectSeq(results, LAMBDA r : r.confidence > 0)
      averageConfidence == IF Len(validResults) > 0
                           THEN Quotient(SumConfidence(validResults), Len(validResults))
                           ELSE Quotient(0, 1)
  IN  [images |-> results, combinedText |-> combinedText,
       averageConfidence |-> averageConfidence]

\* lists of up to MaxImages images, each with its OCR outcome
InitOcr ==
  InitLibrary(UNION {{f \o <<>> : f \in [1..n -> OcrOutcomes]} : n \in 0..MaxImages})

\* extractTextFromMultipleImages(imageBuffers)
CallExtractTextFromMultipleImages ==
  /\ pc = "call"
  /\ returned' = Some(ExtractTextFromMultipleImages(args))
  /\ pc' = "returned"
  /\ UNCHANGED notLibraryVars

SpecOcr == InitOcr /\ [][CallExtractTextFromMultipleImages]_vars


(***************************************************************************)
(* components/VerificationForm.tsx: the form in the browser.  React         *)
(* commits the state set by a handler before the browser dispatches the     *)
(* next event, so a handler and the rendering that follows it are one step. *)
(***************************************************************************)
\* what the user types into the four inputs
FormInputs ==
  [brandName : {<<>>, OldTom}, productType : {DistilledSpirits},
   alcoholContent : {<<"4","5">>, <<"1","5","0">>}, netContents : {Vol750mL}]

\* the rules given to register(): the messages of the inputs that break one
ValidationErrors(data) ==
  {m \in {"Brand name is required", "Product type is required",
          "Alcohol content is required", "Cannot exceed 100%", "Net contents is required"} :
     \/ m = "Brand name is required" /\ data.brandName = <<>>
     \/ m = "Product type is required" /\ data.productType = <<>>
     \/ m = "Alcohol content is required" /\ data.alcoholContent = <<>>
     \/ m = "Cannot exceed 100%" /\ data.alcoholContent # <<>>
          /\ ParseFloat(data.alcoholContent) > 1000
     \/ m = "Net contents is required" /\ data.netContents = <<>>}

\* new FormData() and the five append calls
MultipartBody(selectedImage, data) ==
  [files |-> [image |-> <<selectedImage>>],
   brandName |-> data.brandName, productType |-> data.productType,
   alcoholContent |-> data.alcoholContent, netContents |-> data.netContents]

\* the request the handler sees for a body sent by fetch: formidable parses
\* it, and files.images holds the files sent under the name 'images'
ParseForm(body) ==
  [method |-> "POST", parses |-> TRUE,
   brandName |-> body.brandName, productType |-> body.productType,
   alcoholContent |-> body.alcoholContent, netContents |-> body.netContents,
   images |-> IF "images" \in DOMAIN body.files THEN body.files.images ELSE <<>>]


InitForm ==
  /\ pc = "form"
  /\ usedMethod = "none"
  /\ formData = Null
  /\ rawJson = Null
  /\ extractedData = Null
  /\ ocrText = <<>>
  /\ fields = Null
  /\ result = NoResult
  /\ NoRequest
  /\ NoCalls
  /\ NoLibraryCall
  /\ verificationForm = [selectedImage |-> Null, isSubmitting |-> FALSE,
                         apiErrors |-> Null, generalError |-> Null,
                         errors |-> {},
                         data |-> [brandName |-> <<>>, productType |-> <<>>,
                                   alcoholContent |-> <<>>, netContents |-> <<>>],
                         pathname |-> "/"]
  /\ inFlight = <<>>

\* what the form leaves alone
notFormVars ==
  <<pc, usedMethod, formData, rawJson, extractedData, ocrText, fields, result,
    request, response, tempFiles, trace, calls, lastIndex, args, returned>>

\* disabled={isSubmitting} of the inputs, the upload area and the button
FieldsEnabled == ~verificationForm.isSubmitting

\* a variant in which the button stays enabled during a submission
SubmitAlwaysEnabled == verificationForm.pathname = "/"

\* the submit button can be pressed
SubmitEnabled == verificationForm.pathname = "/" /\ ~verificationForm.isSubmitting

\* the user fills the inputs
TypeInputs ==
  /\ verificationForm.pathname = "/"
  /\ FieldsEnabled
  /\ \E data \in FormInputs :
       verificationForm' = [verificationForm EXCEPT !.data = data]
  /\ UNCHANGED <<inFlight, notFormVars>>

\* ImageUpload, shown while no image is selected: onImageSelected
SelectImage ==
  /\ verificationForm.pathname = "/"
  /\ FieldsEnabled
  /\ IsNull(verificationForm.selectedImage)
  /\ \E type \in {Jpeg, Gif} :
       verificationForm' = [verificationForm EXCEPT !.selectedImage = Some(type)]
  /\ UNCHANGED <<inFlight, notFormVars>>

\* ImagePreview, shown while an image is selected: onRemove
RemoveImage ==
  /\ verificationForm.pathname = "/"
  /\ ~IsNull(verificationForm.selectedImage)
  /\ verificationForm' = [verificationForm EXCEPT !.selectedImage = Null]
  /\ UNCHANGED <<inFlight, notFormVars>>

\* handleSubmit(onSubmit): the inputs are validated, and onSubmit runs up to
\* its await of fetch
Submit ==
  /\ SubmitEnabled
  /\ IF ValidationErrors(verificationForm.data) # {}
     THEN /\ verificationForm' =
               [verificationForm EXCEPT !.errors = ValidationErrors(verificationForm.data)]
          /\ UNCHANGED inFlight
     ELSE IF IsNull(verificationForm.selectedImage)
     THEN /\ verificationForm' =
               [verificationForm EXCEPT !.errors = {},
                                        !.generalError = Some("Please upload a label image")]
          /\ UNCHANGED inFlight
     ELSE /\ verificationForm' =
               [verificationForm EXCEPT !.errors = {}, !.isSubmitting = TRUE,
                                        !.apiErrors = Null, !.generalError = Null]
          /\ inFlight' = Append(inFlight,
                                MultipartBody(Val(verificationForm.selectedImage),
                                              verificationForm.data))
  /\ UNCHANGED notFormVars

\* the requests without the k-th
Answered(k) == SubSeq(inFlight, 1, k - 1) \o SubSeq(inFlight, k + 1, Len(inFlight))

\* !response.ok: the error of the response is shown
ReceiveError ==
  /\ \E k \in 1..Len(inFlight) :
       \E error \in {"No image files uploaded", ProcessingFailed} :
         /\ verificationForm' = [verificationForm EXCEPT !.generalError = Some(error),
                                                         !.isSubmitting = FALSE]
         /\ inFlight' = Answered(k)
  /\ UNCHANGED notFormVars

\* result.success: router.push to the success page
ReceiveSuccess ==
  /\ \E k \in 1..Len(inFlight) :
       /\ verificationForm' = [verificationForm EXCEPT !.pathname = "/success"]
       /\ inFlight' = Answered(k)
  /\ UNCHANGED notFormVars

\* the label does not match: the field errors are shown on the form
ReceiveMismatch ==
  /\ \E k \in 1..Len(inFlight) :
       /\ verificationForm' = [verificationForm EXCEPT !.apiErrors = Some("fields"),
                                                       !.isSubmitting = FALSE]
       /\ inFlight' = Answered(k)
  /\ UNCHANGED notFormVars

\* catch: fetch rejects or the body of the response is no JSON
FetchFails ==
  /\ \E k \in 1..Len(inFlight) :
       /\ verificationForm' =
            [verificationForm EXCEPT
               !.generalError = Some("An unexpected error occurred. Please try again."),
               !.isSubmitting = FALSE]
       /\ inFlight' = Answered(k)
  /\ UNCHANGED notFormVars

NextForm ==
  \/ TypeInputs
  \/ SelectImage
  \/ RemoveImage
  \/ Submit
  \/ ReceiveError
  \/ ReceiveSuccess
  \/ ReceiveMismatch
  \/ FetchFails

SpecForm == InitForm /\ [][NextForm]_vars


\* label texts: a product word, alone or after words that put it further
\* into the line
ProductTexts ==
  {prefix \o word :
     prefix \in {<<>>, <<"f","i","n","e"," ">>, <<"K","e","n","t","u","c","k","y"," ">>,
                 <<"s","t","r","a","i","g","h","t"," ">>,
                 <<"K","e","n","t","u","c","k","y"," ","s","t","r","a","i","g","h","t"," ">>},
     word \in DescriptionWords
                \cup {<<"g","i","n","g","e","r">>, <<"w","i","n","e","s">>,
                      <<"D","i","s","t","i","l","l","e","d"," ","S","p","i","r","i","t","s">>}}

InitProductType ==
  InitLibrary([expectedCategory : {Wine, DistilledSpirits}, text : ProductTexts])

\* verifyProductType(expectedCategory, ocrText)
VerifyProductTypeCall ==
  /\ pc = "call"
  /\ returned' = Some(TextVerifyProductType(args.expectedCategory, args.text))
  /\ pc' = "returned"
  /\ UNCHANGED notLibraryVars

SpecProductType == InitProductType /\ [][VerifyProductTypeCall]_vars


(***************************************************************************)
(* Overall result and abort rule                                            *)
(***************************************************************************)
\* C1: every VerificationResult that verifyLabel (text path) returns has
\* success true exactly when brandName, productType, alcoholContent and
\* netContents all matched; governmentWarning is reported among the fields
\* but is not part of the conjunction.
C1_SuccessIffRequiredMatched ==
  (pc = "done" /\ usedMethod = "ocr" /\ result.kind = "result") =>
    /\ result.success <=> /\ result.fields.brandName.matched
                          /\ result.fields.productType.matched
                          /\ result.fields.alcoholContent.matched
                          /\ result.fields.netContents.matched
    /\ result.fields.governmentWarning = TextVerifyGovernmentWarning(ocrText)

\* a returned text result that succeeds although the warning is missing
C1_Witness ==
  /\ pc = "done" /\ usedMethod = "ocr" /\ result.kind = "result"
  /\ result.success
  /\ ~result.fields.governmentWarning.matched

C3_VisionAbortsOnMissingCriticalFields ==
  (/\ pc = "done" /\ usedMethod = "vision"
   /\ Cardinality({f \in {"brandName", "productType", "alcoholContent"} :
                     IsNull(extractedData[f])}) >= 2) =>
    (result.kind = "throw" /\ result.error = InsufficientLabelData)

\* C4: verifyLabel (text path) throws the insufficient-label-data error
\* exactly when at least two of the brandName, productType and
\* alcoholContent results have found = null; with exactly one of them
\* missing it returns a VerificationResult in which that field is not matched.
C4_TextAbortIffTwoMissing ==
  (pc = "done" /\ usedMethod = "ocr") =>
    LET missing == {f \in {"brandName", "productType", "alcoholContent"} :
                      IsNull(fields[f].found)}
    IN  /\ (result.kind = "throw" /\ result.error = InsufficientLabelData)
             <=> Cardinality(missing) >= 2
        /\ Cardinality(missing) < 2 => result.kind = "result" /\ result.fields = fields
        /\ Cardinality(missing) = 1 => \A f \in missing : ~result.fields[f].matched

\* only the brand is missing: a normal result with brandName not matched
C4_Witness ==
  /\ pc = "done" /\ usedMethod = "ocr"
  /\ IsNull(fields.brandName.found)
  /\ ~IsNull(fields.productType.found) /\ ~IsNull(fields.alcoholContent.found)
  /\ result.kind = "result"
  /\ ~result.fields.brandName.matched

\* C5: for one and the same OCR text, verifyLabel aborts for every declared
\* record or for none: the abort does not depend on the declared record.
C5_AbortIndependentOfDeclaredRecord ==
  (pc = "done" /\ usedMethod = "ocr") =>
    \A b \in DeclaredBrands :
      (VerifyLabel([formData EXCEPT !.brandName = b], ocrText).kind = "throw")
        <=> (result.kind = "throw")

C7_VisionProductTypeIffClassified ==
  (pc = "done" /\ usedMethod = "vision") =>
    fields.productType.matched
      <=> /\ ~IsNull(extractedData.productType)
          /\ ~IsNull(ClassifyProductType(Val(extractedData.productType)).category)
          /\ CategoriesMatch(formData.productType,
                Val(ClassifyProductType(Val(extractedData.productType)).category))

\* C8: for a declared ABV d and a present extracted ABV e, in tenths, the
\* alcohol verifier matches exactly when |d - e| <= 5 (half a percentage
\* point, boundary included); an absent extracted value gives matched =
\* false, found = null and the not-found error.
C8_AbvMatchIffWithinHalfPoint ==
  (pc = "done" /\ usedMethod = "vision") =>
    LET d == formData.alcoholContent
        e == extractedData.alcoholContent
        r == fields.alcoholContent
    IN  IF IsNull(e)
        THEN ~r.matched /\ IsNull(r.found)
             /\ r.error = Some("Alcohol content not found on label")
        ELSE r.matched <=> (d - Val(e) <= 5 /\ Val(e) - d <= 5)

\* C9: verifyNetContentsField matches exactly when the normalized volume
\* strings are equal or 100 * (1 - levenshtein / max(len)) >= 80; declared
\* '750 mL' matches extracted '750ML' and not '1 L'; an absent extracted
\* value gives matched = false and the not-found error.
C9_NetContentsMatchIffEqualOrSimilar ==
  (pc = "done" /\ usedMethod = "vision") =>
    LET e == extractedData.netContents
        r == fields.netContents
    IN  IF IsNull(e)
        THEN ~r.matched /\ r.error = Some("Net contents not found on label")
        ELSE LET a == NormalizeVolume(formData.netContents)
                 b == NormalizeVolume(Val(e))
                 maxLen == Max2(Len(a), Len(b))
             IN  /\ r.matched
                      <=> \/ a = b
                          \/ 100 * (maxLen - LevenshteinDistance(a, b)) >= 80 * maxLen
                 /\ (formData.netContents = Vol750mL /\ Val(e) = Vol750ML) => r.matched
                 /\ (formData.netContents = Vol750mL /\ Val(e) = Vol1L) => ~r.matched

\* declared '750 mL' and extracted '750 mI': unequal after normalization,
\* similarity exactly 80, matched
C9_Witness ==
  /\ pc = "done" /\ usedMethod = "vision"
  /\ formData.netContents = Vol750mL
  /\ extractedData.netContents = Some(Vol750mI)
  /\ fields.netContents.matched
  /\ fields.netContents.similarity = Some(80)

\* C10: every field result of either path carries an error message exactly
\* when it is not matched.
C10_ErrorIffNotMatched ==
  pc = "done" =>
    \A f \in {"brandName", "productType", "alcoholContent", "netContents",
               "governmentWarning"} :
      ~IsNull(fields[f].error) <=> ~fields[f].matched

\* a run of the text path with a matched and an unmatched field
C10_Witness ==
  /\ pc = "done" /\ usedMethod = "ocr"
  /\ fields.brandName.matched /\ IsNull(fields.brandName.error)
  /\ ~fields.netContents.matched /\ ~IsNull(fields.netContents.error)

(***************************************************************************)
(* Error handling of the verifiers                                          *)
(***************************************************************************)
\* C11: for every extracted record, whatever JSON type each of its fields
\* has, the vision verification raises no error: it returns a result whose
\* five fields are FieldResults, and a field that could not be compared is
\* reported with matched false and an error message.
C11_VerifiersNeverThrow ==
  (pc = "done" /\ usedMethod = "vision") =>
    /\ result.kind = "result"
    /\ \A f \in FieldNames : ~result.fields[f].matched => ~IsNull(result.fields[f].error)

(***************************************************************************)
(* End-to-end scenarios                                                     *)
(***************************************************************************)
XyzLabelJson(brand) ==
  [brandName |-> Some(brand), productType |-> Some(RedTableWine),
   alcoholContent |-> Some(125), netContents |-> Some(Vol750ML),
   hasGovernmentWarning |-> TRUE]

\* C12: with declared {XYZ Winery, Wine, 12.5, 750 mL} and extracted
\* {XYZ Winery, Red Table Wine, 12.5, 750ML, warning present} the vision
\* verification returns success = true and brandName, productType,
\* alcoholContent and netContents are all matched.
C12_PassScenario ==
  (pc = "done" /\ usedMethod = "vision" /\ rawJson = XyzLabelJson(XyzWinery)) =>
    /\ result.kind = "result"
    /\ result.success
    /\ \A f \in RequiredFields : result.fields[f].matched

C12_Witness ==
  /\ pc = "done" /\ usedMethod = "vision" /\ rawJson = XyzLabelJson(XyzWinery)
  /\ formData.brandName = XyzWinery /\ formData.alcoholContent = 125
  /\ result.fields.productType.similarity = Some(95)

\* the label whose brand differs from the declared one and whose other
\* fields agree with the declaration, as either path receives it
BrandDiffersOthersAgree ==
  \/ /\ usedMethod = "vision"
     /\ rawJson.brandName = Some(AbcWinery)
     /\ rawJson.productType = Some(RedTableWine)
     /\ rawJson.alcoholContent = Some(125)
     /\ rawJson.netContents = Some(Vol750ML)
  \/ /\ usedMethod = "ocr"
     /\ ocrText = JoinLines(<<AbcWinery, RedTableWine, Abv125, Vol750mL>>)

VerifyLabelAlone ==
  {[form |-> form, text |-> text, result |-> VerifyLabel(form, text)] :
     form \in CallForms, text \in CallTexts}

C14_CallsDoNotInterfere ==
  \A c \in DOMAIN calls :
    calls[c].at = "returned" =>
      \E alone \in VerifyLabelAlone :
        /\ alone.form = calls[c].form /\ alone.text = calls[c].text
        /\ alone.result = calls[c].result

C14_Witness ==
  /\ pc = "calls"
  /\ calls[1].at = "returned" /\ calls[1].result.kind = "result"
  /\ calls[1].fields.alcoholContent.matched
  /\ calls[2].at = "volumes" /\ Len(calls[2].volumes) = 1
  /\ calls[1].text # calls[2].text

(***************************************************************************)
(* The handler: fallback protocol and validation                            *)
(***************************************************************************)
Logged(event) == \E i \in 1..Len(trace) : trace[i] = event

VisionSucceeded == Logged("verifyLabelWithVision returned")
VisionFailed == Logged("verifyLabelWithVision threw")
OcrSucceeded == Logged("verifyLabel returned")
OcrFailed ==
  Logged("extractTextFromImage threw") \/ Logged("no text read") \/ Logged("verifyLabel threw")

WellFormedRequest ==
  /\ request.method = "POST"
  /\ request.brandName # <<>> /\ request.productType # <<>>
  /\ request.alcoholContent # <<>> /\ request.netContents # <<>>
  /\ ~IsMistyped(HandlerParseFloat(request.alcoholContent))
  /\ Len(request.images) \in {1, 2}
  /\ \A i \in 1..Len(request.images) : request.images[i] \in {Jpeg, Jpg, Png, Webp}

\* C16: the handler calls an extraction or verification function
\* only for a well-formed request; every other request is answered with 405
\* or 400 before any such call, never with 200.
C16_OtherRequestsGet405Or400 ==
  /\ (trace # <<>> \/ pc \notin {"request", "responded"}) => WellFormedRequest
  /\ (pc = "responded" /\ ~WellFormedRequest) =>
       /\ response.status \in {405, 400}
       /\ trace = <<>>

(***************************************************************************)
(* Normalization and similarity                                             *)
(***************************************************************************)
\* C17: normalizeText is idempotent: normalizing a normalized string gives
\* the same string.
C17_NormalizeTextIdempotent ==
  pc = "returned" => NormalizeText(Val(returned)) = Val(returned)

\* C18: fuzzyMatch is reflexive: a string scores 100 against itself, and so
\* do any two strings with the same normalized form.
C18_FuzzyMatchReflexive ==
  (pc = "returned" /\ NormalizeText(args[1]) = NormalizeText(args[2])) =>
    Val(returned) = 100

\* the windows of a list of words as pairs of size and start index
WindowsOf(words) ==
  {w \in (1..10) \X (1..Len(words)) : w[2] + w[1] - 1 <= Len(words)}

\* every window with its text and its score against the term
ScoredWindows(term, words) ==
  {[size |-> w[1], start |-> w[2],
    match |-> JoinWords(words, w[2], w[2] + w[1] - 1),
    score |-> FuzzyMatch(term, JoinWords(words, w[2], w[2] + w[1] - 1))] :
     w \in WindowsOf(words)}

\* C19: findBestMatch looks at every window of 1 to 10 consecutive words of
\* the text; it returns null when no window scores at least the threshold
\* (as for the empty text), and otherwise a window of the maximal score:
\* among the windows of that score the one of the smallest size and, among
\* these, of the smallest start index.
C19_FindBestMatchFirstMaximum ==
  pc = "returned" =>
    LET scored == ScoredWindows(args.term, SplitWhitespace(args.text))
        best == CHOOSE r \in scored :
                  \A q \in scored :
                    \/ r.score > q.score
                    \/ /\ r.score = q.score
                       /\ \/ r.size < q.size
                          \/ r.size = q.size /\ r.start <= q.start
    IN  IF best.score >= args.threshold
        THEN Val(returned) = Some([match |-> best.match, score |-> best.score])
        ELSE Val(returned) = Null

C19_Witness ==
  /\ pc = "returned" /\ args.text = <<"a"," ","b"," ","a">>
  /\ args.term = <<"a"," ","b">> /\ args.threshold = 50
  /\ Val(returned) = Some([match |-> <<"a"," ","b">>, score |-> 100])

(***************************************************************************)
(* Classification                                                           *)
(***************************************************************************)
\* the (category, keyword) pairs whose keyword a text includes
KeywordHits(normalized) ==
  {k \in 1..Len(KeywordEntries) : Includes(normalized, KeywordEntries[k].keyword)}

\* C20: classifyProductType returns no category and confidence 0 for a
\* blank text and for a text that includes no keyword; otherwise it returns
\* the category and the confidence of a keyword hit whose confidence is
\* maximal over all hits; the confidence is at most 95.
C20_ClassifyReturnsMaximalHit ==
  pc = "returned" =>
    LET normalized == Trim(ToLowerCase(args))
        hits == KeywordHits(normalized)
    IN  /\ Val(returned).confidence <= 95
        /\ IF hits = {}
           THEN IsNull(Val(returned).category) /\ Val(returned).confidence = 0
           ELSE \E k \in hits :
                  /\ Val(returned).category = Some(KeywordEntries[k].category)
                  /\ Val(returned).confidence =
                       KeywordConfidence(normalized, KeywordEntries[k].keyword)
                  /\ \A j \in hits :
                       KeywordConfidence(normalized, KeywordEntries[j].keyword)
                         <= Val(returned).confidence

C20_Witness ==
  /\ pc = "returned"
  /\ args = <<"v","i","r","g","i","n","i","a"," ","w","i","n","e">>
  /\ Val(returned).category = Some(Wine)
  /\ Val(returned).confidence = 83

(***************************************************************************)
(* Presence of extracted values                                             *)
(***************************************************************************)
\* C21: presence is decided explicitly and not by truthiness: an extracted
\* alcoholContent of 0 reaches the verifier as a present value, so with a
\* declared ABV within 0.5 of 0 the alcohol field matches and is not
\* reported as not found.
C21_ZeroAbvIsPresent ==
  (pc = "done" /\ usedMethod = "vision" /\ rawJson.alcoholContent = Some(0)) =>
    /\ extractedData.alcoholContent = Some(0)
    /\ formData.alcoholContent <= 5 => fields.alcoholContent.matched


(***************************************************************************)
(* Volume units                                                             *)
(***************************************************************************)
\* C22: normalizeVolumeUnit (text path) and normalizeVolume (vision path)
\* map every spelling of a unit family to one token, so a declared and an
\* extracted volume that differ only in the spelling of the unit have the
\* same normalized string and are reported as matched.
C22_UnitSpellingsNormalizeAlike ==
  pc = "returned" =>
    /\ Val(returned).result.matched
    /\ IF Val(returned).path = "ocr"
       THEN NormalizeVolumeUnit(args.declared) = NormalizeVolumeUnit(args.extracted)
       ELSE NormalizeVolume(args.declared) = NormalizeVolume(args.extracted)


(***************************************************************************)
(* Candidates of the text path                                              *)
(***************************************************************************)
\* C23: with the ordered list of the percentages found in the text,
\* verifyAlcoholContent matches exactly when some candidate is within 0.5
\* of the declared value and then reports the first such candidate of the
\* list; otherwise it does not match and reports the first candidate, or
\* null when the list is empty.
C23_FirstCandidateWithinTolerance ==
  pc = "returned" =>
    LET list == FindAlcoholContent(args.text)
        d == args.formValue
        within == {k \in 1..Len(list) : list[k] - d <= 5 /\ d - list[k] <= 5}
        r == Val(returned)
    IN  IF within # {}
        THEN /\ r.matched
             /\ r.found = Some(PercentString(list[CHOOSE k \in within :
                                                    \A j \in within : k <= j]))
        ELSE /\ ~r.matched
             /\ r.found = IF list = <<>> THEN Null ELSE Some(PercentString(list[1]))


\* C24: among several volumes found in the text verifyNetContents finds the
\* best match: when it matches, the reported volume is a candidate whose
\* similarity to the declared volume is the highest of all candidates.
C24_ReportedVolumeIsBestCandidate ==
  (pc = "returned" /\ Val(returned).result.matched) =>
    LET list == FindNetContents(args.extracted)
        sim(v) == FuzzyMatch(NormalizeVolumeUnit(args.declared), NormalizeVolumeUnit(v))
    IN  \E k \in 1..Len(list) :
          /\ Val(returned).result.found = Some(list[k])
          /\ \A j \in 1..Len(list) : sim(list[j]) <= sim(list[k])


(***************************************************************************)
(* OCR of several images                                                    *)
(***************************************************************************)
\* C25: extractTextFromMultipleImages isolates the failure of single
\* images: for every list of images and every subset of them whose OCR
\* fails it returns one result per image, in order, with imageIndex equal
\* to the position; a failed image has text '' and confidence 0; the
\* combined text joins the non-blank texts only, and the average
\* confidence is taken over the images that did not fail (0 if all failed).
C25_PerImageFailuresIsolated ==
  pc = "returned" =>
    LET r == Val(returned)
        succeeded == {i \in 1..Len(args) : args[i].kind = "result"}
        texts == SelectSeq([i \in 1..Len(args) |->
                              IF i \in succeeded THEN args[i].text ELSE <<>>] \o <<>>,
                           LAMBDA t : Trim(t) # <<>>)
        total == SumConfidence([i \in 1..Len(args) |->
                                  IF i \in succeeded THEN args[i]
                                  ELSE [confidence |-> 0]] \o <<>>)
    IN  /\ Len(r.images) = Len(args)
        /\ \A i \in 1..Len(args) :
             /\ r.images[i].imageIndex = i - 1
             /\ i \notin succeeded =>
                  r.images[i].text = <<>> /\ r.images[i].confidence = 0
             /\ i \in succeeded =>
                  /\ r.images[i].text = args[i].text
                  /\ r.images[i].confidence = args[i].confidence
        /\ r.combinedText = JoinWith(texts, ImageSeparator)
        /\ IF succeeded = {}
           THEN r.averageConfidence.numerator = 0
           ELSE r.averageConfidence.numerator * Cardinality(succeeded)
                  = total * r.averageConfidence.denominator


(***************************************************************************)
(* The form in the browser                                                  *)
(***************************************************************************)
\* C26: from the moment a submission sends its request until its outcome
\* is handled the submit button and the inputs are disabled, so at most one
\* verification request is in flight at any time; and no request is sent
\* when no image is selected (every request carries the image).
C26_OneRequestInFlight ==
  pc = "form" =>
    /\ Len(inFlight) <= 1
    /\ inFlight # <<>> => verificationForm.isSubmitting
    /\ \A k \in 1..Len(inFlight) : Len(inFlight[k].files.image) = 1

C26_Witness ==
  /\ pc = "form"
  /\ Len(inFlight) = 1
  /\ verificationForm.isSubmitting
  /\ IsNull(verificationForm.selectedImage)


(***************************************************************************)
(* The declared record of the handler                                       *)
(***************************************************************************)
\* C27: every declared record the handler passes to the verification has an
\* alcoholContent that is a finite number in [0, 100]; a submitted
\* alcoholContent outside that range is rejected with 400 and reaches no
\* verifier.
C27_DeclaredAbvInRange ==
  /\ (pc \notin {"request", "responded"} \/ trace # <<>>) =>
       formData.alcoholContent >= 0 /\ formData.alcoholContent <= 1000
  /\ (pc = "responded" /\ request.method = "POST" /\ request.parses
        /\ request.alcoholContent = <<"1","5","0">>) =>
       response.status = 400 /\ trace = <<>>


\* C28: for every request whose multipart upload was parsed, all uploaded
\* temporary files are deleted by the time the handler sends its response,
\* on the success path and on every 400 and 500 path alike.
C28_NoTempFileOutlivesItsRequest ==
  (pc = "responded" /\ request.method = "POST" /\ request.parses) => tempFiles = {}


\* C29: the form and the API agree on the upload protocol: the multipart
\* field under which the form sends the selected image is the field the
\* handler reads the images from, so a submission with an image selected
\* and all inputs valid is never rejected with 'No image files uploaded'
\* and, its image being of a valid type, reaches the extraction.
C29_FormAndHandlerAgreeOnImageField ==
  pc = "form" =>
    \A k \in 1..Len(inFlight) :
      /\ Rejection(ParseForm(inFlight[k])).error # "No image files uploaded"
      /\ inFlight[k].files.image[1] \in ValidTypes
           => Rejection(ParseForm(inFlight[k])) = Accepted


(***************************************************************************)
(* Confidence floors of verifyProductType                                   *)
(***************************************************************************)
\* the classification of the description the pattern extracts from a text
DescriptionClassification(text) ==
  IF IsNull(FindProductDescription(text)) \/ Val(FindProductDescription(text)) = <<>>
  THEN NoClassification
  ELSE ClassifyProductType(Val(FindProductDescription(text)))

\* C30: every keyword has at least 3 characters, and whenever
\* classifyProductType returns a category its confidence lies between 66
\* and 95, so in verifyProductType the floor of 60 on the
\* classification of the whole text never rejects a classification: a text
\* with a category that got no result before the fallback is answered from
\* the fallback.  (The floor of 70 on the extracted description can reject
\* one: the witness.)
C30_ConfidenceBetween66And95 ==
  pc = "returned" =>
    LET whole == ClassifyProductType(args.text)
        description == DescriptionClassification(args.text)
        match == FindBestMatch(args.expectedCategory, args.text, FUZZY_MATCH_THRESHOLD)
    IN  /\ \A k \in 1..Len(KeywordEntries) : Len(KeywordEntries[k].keyword) >= 3
        /\ \A c \in {whole, description} :
             ~IsNull(c.category) => c.confidence >= 66 /\ c.confidence <= 95
        /\ (/\ IsNull(match)
            /\ IsNull(description.category) \/ description.confidence < 70
            /\ ~IsNull(whole.category)) =>
             /\ Val(returned).found = Some(<<"Classified as", Val(whole.category)>>)
             /\ Val(returned).similarity = Some(whole.confidence)

\* the description 'Kentucky straight ginger' is classified with confidence
\* 66, below the floor of 70, and the whole text answers
C30_Witness ==
  /\ pc = "returned"
  /\ ~IsNull(DescriptionClassification(args.text).category)
  /\ DescriptionClassification(args.text).confidence = 66
  /\ Val(returned).found = Some(<<"Classified as", DistilledSpirits>>)
  /\ Val(returned).similarity = Some(66)


====
